---- MODULE Spec2Model ----
(***************************************************************************)
(* StatArbDash analytics engine: spread / z-score / Bollinger primitives,  *)
(* the pair and basket scanners, and the pages that call them.             *)
(*                                                                         *)
(* Numbers.  Prices are modelled by their natural logarithm, an integer    *)
(* (price = e^k), so that log spreads and log returns are exact integers.  *)
(* Every derived float is kept exactly as a "quadratic real"               *)
(*      [p, q, r, d]  standing for  (p + q * sqrt(r)) / d ,  d > 0         *)
(* (d = 0 stands for +/-infinity with the sign of p).  A float that may be *)
(* NaN is a sequence of length at most one: NaN is <<>>, x is <<x>>.       *)
(***************************************************************************)
EXTENDS Integers, Sequences, FiniteSets, TLC

VARIABLES
    prices_wide,   \* the price table handed to every analytics call
    baskets,       \* config.universe.BASKETS: sequence of [name, tickers]
    settings,      \* config.settings.Settings (the fields the analytics read)
    failing,       \* unordered column pairs whose metric computation raises
    view,          \* what the page rendered last computed
    args,          \* arguments of the primitive under test
    ret,           \* its result: <<>> before the call, <<result>> after
    session_state, \* st.session_state: the keys set so far, with their values
    now            \* datetime.now(), counted in runs of app.py

vars == <<prices_wide, baskets, settings, failing, view, args, ret, session_state, now>>

scanInputs == <<prices_wide, baskets, settings, failing>>

session == <<session_state, now>>

-----------------------------------------------------------------------------
(* Bounds of the model *)

MaxBars == 5          \* longest breach series
MaxBandLen == 2       \* longest series / band handed to latest_boll_breach
MaxBandVal == 1       \* series and band values range over 0..MaxBandVal
MaxRows == 4          \* most bars of a price table
MaxMoverRows == 3     \* most bars of a price table of the top movers
MaxHealthRows == 3    \* most bars of a price table given to get_data_health
MaxHealthCols == 11   \* most columns of such a table
MaxSeriesLen == 4     \* longest series given to zscore, bollinger_bands, spread_vol
MaxSeriesVal == 2     \* its values range over 0..MaxSeriesVal
MaxBasketRows == 3    \* most bars of a table whose columns cover only part of the baskets
MaxViewRows == 3      \* most bars of a table shown through the Pair Explorer's filters
MaxFetchedRows == 3   \* bars of a table a fetch stores in the session
MaxRuns == 2          \* most runs of app.py in a session
MaxCalls == 2         \* most analytics calls made in a row on the same inputs

-----------------------------------------------------------------------------
(* Floats *)

NaN == <<>>

Some(x) == <<x>>

isna(x) == x = NaN

Val(x) == x[1]

\* the integer or rational n/d as a quadratic real
Rat(n, d) == [p |-> n, q |-> 0, r |-> 0, d |-> d]

Int2R(n) == Rat(n, 1)

Sgn(n) == IF n > 0 THEN 1 ELSE IF n < 0 THEN -1 ELSE 0

\* L < R * sqrt(r), for integers L, R and r >= 0
LtRoot(L, R, r) ==
    IF R >= 0
    THEN IF L < 0 THEN TRUE ELSE L * L < R * R * r
    ELSE L < 0 /\ L * L > R * R * r

\* a < b on quadratic reals; the two share their radical, or one has none,
\* or both are pure radicals q*sqrt(r)/d
Lt(a, b) ==
    IF a.p = 0 /\ b.p = 0 /\ a.d > 0 /\ b.d > 0
    THEN Sgn(a.q) * a.q * a.q * a.r * b.d * b.d
            < Sgn(b.q) * b.q * b.q * b.r * a.d * a.d
    ELSE LET r == IF a.q = 0 THEN b.r ELSE a.r
             L == a.p * b.d - b.p * a.d
             R == b.q * a.d - a.q * b.d
         IN  LtRoot(L, R, r)

Gt(a, b) == Lt(b, a)

Ge(a, b) == ~Lt(a, b)

Eq(a, b) == ~Lt(a, b) /\ ~Lt(b, a)

\* abs() of a float
Abs(a) ==
    IF a.q = 0 THEN [a EXCEPT !.p = IF a.p < 0 THEN -a.p ELSE a.p]
    ELSE IF Lt(a, Int2R(0)) THEN [a EXCEPT !.p = -a.p, !.q = -a.q] ELSE a

-----------------------------------------------------------------------------
(* Sequences *)

Last(s) == s[Len(s)]

\* s.tail(n) for n >= 0
tail(s, n) == IF Len(s) <= n THEN s ELSE SubSeq(s, Len(s) - n + 1, Len(s))

RECURSIVE SeqsUpTo(_, _)
\* all sequences over S of length at most n
SeqsUpTo(S, n) ==
    IF n = 0 THEN {<<>>}
    ELSE LET shorter == SeqsUpTo(S, n - 1)
         IN  shorter \cup {Append(s, x) : s \in {t \in shorter : Len(t) = n - 1}, x \in S}

\* the DatetimeIndex of a table of n hourly bars
HourlyIndex(n) == [i \in 1..n |-> i * 3600]

-----------------------------------------------------------------------------
(* analytics/scanner.py and pages/3_Pair_Explorer.py: bars since breach *)

\* Index.get_loc: the 0-based position of a label; <<>> models the
\* slice/mask pandas returns for a label that is not unique
get_loc(index, label) ==
    LET at == {i \in 1..Len(index) : index[i] = label}
    IN  IF Cardinality(at) = 1 THEN Some((CHOOSE i \in at : TRUE) - 1) ELSE <<>>

\* breach_series[breach_series].index
TrueLabels(s) ==
    LET pick(i) == s.values[i]
        F[i \in 0..Len(s.values)] ==
            IF i = 0 THEN <<>>
            ELSE IF pick(i) THEN Append(F[i - 1], s.index[i]) ELSE F[i - 1]
    IN  F[Len(s.values)]

\* a faulty variant: distance counted from the FIRST breach instead of the last
bars_since_first_breach(breach_series) ==
    IF Len(breach_series.values) = 0 THEN NaN
    ELSE IF Last(breach_series.values) THEN Some(0)
    ELSE LET last_true_indices == TrueLabels(breach_series)
         IN  IF Len(last_true_indices) = 0 THEN NaN
             ELSE LET last_breach_pos == get_loc(breach_series.index, last_true_indices[1])
                      current_pos == get_loc(breach_series.index, Last(breach_series.index))
                  IN  IF last_breach_pos = <<>> \/ current_pos = <<>> THEN NaN
                      ELSE Some(Val(current_pos) - Val(last_breach_pos))

_compute_bars_since_breach(breach_series) ==
    IF Len(breach_series.values) = 0 THEN NaN
    ELSE IF Last(breach_series.values) THEN Some(0)
    ELSE LET last_true_indices == TrueLabels(breach_series)
         IN  IF Len(last_true_indices) = 0 THEN NaN
             ELSE LET last_breach_idx == Last(last_true_indices)
                      current_idx == Last(breach_series.index)
                      last_breach_pos == get_loc(breach_series.index, last_breach_idx)
                      current_pos == get_loc(breach_series.index, current_idx)
                  IN  \* except (KeyError, TypeError): return np.nan
                      IF last_breach_pos = <<>> \/ current_pos = <<>> THEN NaN
                      ELSE Some(Val(current_pos) - Val(last_breach_pos))

\* a faulty variant: the distance is taken from the length of the series,
\* one bar too many
compute_bars_since_breach_from_length(breach_series) ==
    IF Len(breach_series.values) = 0 THEN NaN
    ELSE IF Last(breach_series.values) THEN Some(0)
    ELSE LET last_true_indices == TrueLabels(breach_series)
         IN  IF Len(last_true_indices) = 0 THEN NaN
             ELSE LET last_breach_pos == get_loc(breach_series.index,
                                                 Last(last_true_indices))
                  IN  IF last_breach_pos = <<>> THEN NaN
                      ELSE Some(Len(breach_series.values) - Val(last_breach_pos))

\* the copy of the helper in the Pair Explorer page
compute_bars_since_breach(breach_series) ==
    IF Len(breach_series.values) = 0 THEN NaN
    ELSE IF Last(breach_series.values) THEN Some(0)
    ELSE LET last_true_indices == TrueLabels(breach_series)
         IN  IF Len(last_true_indices) = 0 THEN NaN
             ELSE LET last_breach_idx == Last(last_true_indices)
                      current_idx == Last(breach_series.index)
                      last_breach_pos == get_loc(breach_series.index, last_breach_idx)
                      current_pos == get_loc(breach_series.index, current_idx)
                  IN  IF last_breach_pos = <<>> \/ current_pos = <<>> THEN NaN
                      ELSE Some(Val(current_pos) - Val(last_breach_pos))

-----------------------------------------------------------------------------
(* analytics/spread.py: latest_boll_breach *)

\* a faulty variant: a value equal to a band counts as a breach
latest_boll_breach_inclusive(series, upper, lower) ==
    IF Len(series) = 0 \/ Len(upper) = 0 \/ Len(lower) = 0 THEN FALSE
    ELSE IF isna(Last(series)) \/ isna(Last(upper)) \/ isna(Last(lower)) THEN FALSE
    ELSE Ge(Val(Last(series)), Val(Last(upper))) \/ Ge(Val(Last(lower)), Val(Last(series)))

\* a faulty variant: only the upper band is tested
latest_boll_breach_upper_only(series, upper, lower) ==
    IF Len(series) = 0 \/ Len(upper) = 0 \/ Len(lower) = 0 THEN FALSE
    ELSE IF isna(Last(series)) \/ isna(Last(upper)) \/ isna(Last(lower)) THEN FALSE
    ELSE Gt(Val(Last(series)), Val(Last(upper)))

latest_boll_breach(series, upper, lower) ==
    IF Len(series) = 0 \/ Len(upper) = 0 \/ Len(lower) = 0 THEN FALSE
    ELSE LET latest_spread == Last(series)
             latest_upper == Last(upper)
             latest_lower == Last(lower)
         IN  IF isna(latest_spread) \/ isna(latest_upper) \/ isna(latest_lower) THEN FALSE
             ELSE Gt(Val(latest_spread), Val(latest_upper))
                    \/ Lt(Val(latest_spread), Val(latest_lower))

-----------------------------------------------------------------------------
(* Strings are sequences of one-character strings *)

SLASH == "/"

USDT_PERP == <<"/", "U", "S", "D", "T", ":", "U", "S", "D", "T">>

\* ord(c) of the characters the symbols use
ord(c) ==
    CASE c = " " -> 32 [] c = "," -> 44 [] c = "/" -> 47 [] c = ":" -> 58
      [] c = "A" -> 65 [] c = "B" -> 66 [] c = "C" -> 67 [] c = "D" -> 68
      [] c = "E" -> 69 [] c = "H" -> 72
      [] c = "S" -> 83 [] c = "T" -> 84 [] c = "U" -> 85
      [] c = "a" -> 97 [] c = "b" -> 98 [] c = "c" -> 99 [] c = "d" -> 100
      [] c = "e" -> 101 [] c = "h" -> 104
      [] c = "s" -> 115 [] c = "t" -> 116 [] c = "u" -> 117

\* str.upper() on one character
upper1(c) ==
    CASE c = "a" -> "A" [] c = "b" -> "B" [] c = "c" -> "C" [] c = "d" -> "D"
      [] c = "e" -> "E" [] c = "h" -> "H"
      [] c = "s" -> "S" [] c = "t" -> "T" [] c = "u" -> "U" [] OTHER -> c

str_upper(s) == [i \in 1..Len(s) |-> upper1(s[i])]

\* str.strip(): leading and trailing blanks removed
str_strip(s) ==
    LET keep == {i \in 1..Len(s) : s[i] # " "}
    IN  IF keep = {} THEN <<>>
        ELSE SubSeq(s, CHOOSE i \in keep : \A j \in keep : i <= j,
                       CHOOSE i \in keep : \A j \in keep : j <= i)

endswith(s, suffix) ==
    /\ Len(s) >= Len(suffix)
    /\ SubSeq(s, Len(s) - Len(suffix) + 1, Len(s)) = suffix

\* s[:-n]
DropLast(s, n) == SubSeq(s, 1, Len(s) - n)

\* Python's str < str: lexicographic by code point
StrLt(a, b) ==
    \E i \in 1..(Len(b)) :
        /\ \A j \in 1..(i - 1) : j <= Len(a) /\ a[j] = b[j]
        /\ (i > Len(a) \/ (i <= Len(a) /\ ord(a[i]) < ord(b[i])))
        /\ i - 1 <= Len(a)

-----------------------------------------------------------------------------
(* data/ccxt_data.py: symbol normalisation *)

\* a faulty variant: the "/" test is forgotten, a symbol that is already in
\* CCXT form is converted again
to_ccxt_symbol_without_slash_test(raw) ==
    LET s == str_upper(str_strip(raw))
    IN  IF endswith(s, <<"B", "T", "C">>) /\ Len(s) > 3
        THEN DropLast(s, 3) \o <<"/", "B", "T", "C">>
        ELSE IF endswith(s, <<"U", "S", "D", "T">>) THEN DropLast(s, 4) \o USDT_PERP
        ELSE IF endswith(s, <<"U", "S", "D">>) THEN DropLast(s, 3) \o USDT_PERP
        ELSE s

to_ccxt_symbol(raw) ==
    LET s == str_upper(str_strip(raw))
    IN  IF \E i \in 1..Len(s) : s[i] = SLASH THEN s
        ELSE IF endswith(s, <<"B", "T", "C">>) /\ Len(s) > 3
             THEN DropLast(s, 3) \o <<"/", "B", "T", "C">>
        ELSE IF endswith(s, <<"U", "S", "D", "T">>) THEN DropLast(s, 4) \o USDT_PERP
        ELSE IF endswith(s, <<"U", "S", "D">>) THEN DropLast(s, 3) \o USDT_PERP
        ELSE s

normalize_symbols(symbols) == [i \in 1..Len(symbols) |-> to_ccxt_symbol(symbols[i])]

-----------------------------------------------------------------------------
(* The price table: a DataFrame with a DatetimeIndex, ordered columns and  *)
(* one series per column; a cell is NaN or <<k>>, the price e^k.           *)

in_columns(t, table) == \E i \in 1..Len(table.columns) : table.columns[i] = t

\* len(df)
n_rows(table) == Len(table.index)

\* df.empty
empty(table) == Len(table.index) = 0 \/ Len(table.columns) = 0

\* a faulty variant: the filter on the columns is forgotten
valid_tickers_unfiltered(tickers, table) == tickers

\* [t for t in tickers if t in prices_wide.columns]
valid_tickers_of(tickers, table) == SelectSeq(tickers, LAMBDA t : in_columns(t, table))

\* itertools.combinations(xs, 2)
combinations2(xs) ==
    LET n == Len(xs)
        F[k \in 0..(n * n)] ==
            IF k = 0 THEN <<>>
            ELSE LET i == ((k - 1) \div n) + 1
                     j == ((k - 1) % n) + 1
                 IN  IF i < j THEN Append(F[k - 1], <<xs[i], xs[j]>>) ELSE F[k - 1]
    IN  F[n * n]

\* a stable sort: before(x, y) says that x must come ahead of y
SortBy(xs, before(_, _)) ==
    LET insert(sorted, x) ==
            LET ahead == {i \in 1..Len(sorted) : before(x, sorted[i])}
                at == IF ahead = {} THEN Len(sorted) + 1
                      ELSE CHOOSE i \in ahead : \A j \in ahead : i <= j
            IN  SubSeq(sorted, 1, at - 1) \o <<x>> \o SubSeq(sorted, at, Len(sorted))
        F[k \in 0..Len(xs)] == IF k = 0 THEN <<>> ELSE insert(F[k - 1], xs[k])
    IN  F[Len(xs)]

\* sorted(list of str)
sorted(xs) == SortBy(xs, StrLt)

\* sum of f(1) .. f(n)
Sum(f(_), n) ==
    LET F[k \in 0..n] == IF k = 0 THEN 0 ELSE F[k - 1] + f(k)
    IN  F[n]

RECURSIVE gcd(_, _)
gcd(a, b) == IF b = 0 THEN a ELSE gcd(b, a % b)

lcm(a, b) == (a * b) \div gcd(a, b)

\* sample standard deviation (ddof = 1, NaN skipped) of a series of rationals
std(series) ==
    LET xs == SelectSeq(series, LAMBDA x : ~isna(x))
        m == Len(xs)
        D == LET F[k \in 0..m] == IF k = 0 THEN 1 ELSE lcm(F[k - 1], Val(xs[k]).d)
             IN  F[m]
        X(k) == Val(xs[k]).p * (D \div Val(xs[k]).d)
        S == Sum(X, m)
        Q == Sum(LAMBDA k : X(k) * X(k), m)
        V == m * Q - S * S
    IN  IF m < 2 THEN NaN
        ELSE Some([p |-> 0, q |-> 1, r |-> V * m * (m - 1), d |-> D * m * (m - 1)])

-----------------------------------------------------------------------------
(* analytics/metrics.py *)

\* np.log(prices_wide / prices_wide.shift(1))
log_returns(table) ==
    [table EXCEPT !.data =
        [c \in DOMAIN table.data |->
            [i \in 1..Len(table.index) |->
                IF i = 1 \/ isna(table.data[c][i]) \/ isna(table.data[c][i - 1]) THEN NaN
                ELSE Some(Int2R(Val(table.data[c][i]) - Val(table.data[c][i - 1])))]]]

Raised == [ok |-> FALSE, value |-> <<>>]

Returned(v) == [ok |-> TRUE, value |-> <<v>>]

\* raise ValueError(f"Missing columns in logret: {missing}")
ValueError(missing) ==
    [ok |-> FALSE, value |-> <<>>, error |-> "ValueError", missing |-> missing]

\* the IndexError of .iloc[-1] on an empty series
IndexError == [ok |-> FALSE, value |-> <<>>, error |-> "IndexError"]

\* [t for t in tickers if t not in logret.columns]
missing_columns(logret, tickers) == SelectSeq(tickers, LAMBDA t : ~in_columns(t, logret))

\* a faulty variant: missing columns are dropped silently and the mean is
\* taken over the columns that exist
basket_return_defaulting(logret, tickers) ==
    Returned(
        [i \in 1..Len(logret.index) |->
            LET have == SelectSeq(tickers, LAMBDA t :
                            in_columns(t, logret) /\ ~isna(logret.data[t][i]))
            IN  IF Len(have) = 0 THEN NaN
                ELSE Some(Rat(Sum(LAMBDA k : Val(logret.data[have[k]][i]).p, Len(have)),
                              Len(have)))])

\* logret[tickers].mean(axis=1), NaN skipped; ValueError on a missing column
basket_return(logret, tickers) ==
    IF Len(missing_columns(logret, tickers)) # 0
    THEN ValueError(missing_columns(logret, tickers))
    ELSE Returned(
        [i \in 1..Len(logret.index) |->
            LET have == SelectSeq(tickers, LAMBDA t : ~isna(logret.data[t][i]))
            IN  IF Len(have) = 0 THEN NaN
                ELSE Some(Rat(Sum(LAMBDA k : Val(logret.data[have[k]][i]).p, Len(have)),
                              Len(have)))])

\* the window of `window` bars ending at bar i is full and has no NaN
FullWindow(series, window, i) ==
    /\ i >= window
    /\ \A j \in (i - window + 1)..i : ~isna(series[j])

\* logret[a].rolling(window).corr(logret[b]); ValueError on a missing column
rolling_corr(logret, a, b, window) ==
    IF Len(missing_columns(logret, <<a, b>>)) # 0
    THEN ValueError(missing_columns(logret, <<a, b>>))
    ELSE Returned(
        [i \in 1..Len(logret.index) |->
            LET xa == logret.data[a]
                xb == logret.data[b]
                lo == i - window
                A(k) == Val(xa[lo + k]).p
                B(k) == Val(xb[lo + k]).p
                Caa == window * Sum(LAMBDA k : A(k) * A(k), window) - Sum(A, window) * Sum(A, window)
                Cbb == window * Sum(LAMBDA k : B(k) * B(k), window) - Sum(B, window) * Sum(B, window)
                Cab == window * Sum(LAMBDA k : A(k) * B(k), window) - Sum(A, window) * Sum(B, window)
            IN  IF ~FullWindow(xa, window, i) \/ ~FullWindow(xb, window, i) \/ window < 2
                THEN NaN
                ELSE IF Caa * Cbb = 0 THEN NaN
                ELSE Some([p |-> 0, q |-> Cab, r |-> Caa * Cbb, d |-> Caa * Cbb])])

\* float(rolling_corr_series.iloc[-1]): IndexError on an empty series
pair_corr_latest(logret, a, b, window) ==
    LET rolling_corr_series == rolling_corr(logret, a, b, window)
    IN  IF ~rolling_corr_series.ok THEN rolling_corr_series
        ELSE IF Len(Val(rolling_corr_series.value)) = 0 THEN IndexError
        ELSE Returned(Last(Val(rolling_corr_series.value)))

-----------------------------------------------------------------------------
(* analytics/spread.py *)

\* np.log(prices_wide[a]) - np.log(prices_wide[b])
spread_series(table, a, b) ==
    [i \in 1..Len(table.index) |->
        IF isna(table.data[a][i]) \/ isna(table.data[b][i]) THEN NaN
        ELSE Some(Int2R(Val(table.data[a][i]) - Val(table.data[b][i])))]

\* series.rolling(window=window).mean(), for an integer-valued series
rolling_mean(series, window) ==
    [i \in 1..Len(series) |->
        IF ~FullWindow(series, window, i) THEN NaN
        ELSE Some(Rat(Sum(LAMBDA k : Val(series[i - window + k]).p, window), window))]

\* series.rolling(window=window).std(), for an integer-valued series
rolling_std(series, window) ==
    [i \in 1..Len(series) |->
        IF ~FullWindow(series, window, i) \/ window < 2 THEN NaN
        ELSE LET X(k) == Val(series[i - window + k]).p
                 S == Sum(X, window)
                 Q == Sum(LAMBDA k : X(k) * X(k), window)
                 V == window * Q - S * S
             IN  Some([p |-> 0, q |-> 1, r |-> V * window * (window - 1),
                       d |-> window * (window - 1)])]

\* x - m for rationals
Minus(x, m) == Rat(x.p * m.d - m.p * x.d, x.d * m.d)

\* a / s for a rational a and a standard deviation s = q*sqrt(r)/d:
\* 0/0 is NaN, x/0 is +/-inf
Over(a, s) ==
    IF s.q * s.q * s.r = 0
    THEN IF a.p = 0 THEN NaN ELSE Some([p |-> Sgn(a.p), q |-> 0, r |-> 0, d |-> 0])
    ELSE Some([p |-> 0, q |-> a.p * s.d * Sgn(s.q), r |-> s.r,
               d |-> a.d * s.q * Sgn(s.q) * s.r])

\* m + k * s for a rational m, an integer k and a standard deviation s
PlusScaled(m, k, s) == [p |-> m.p * s.d, q |-> k * s.q * m.d, r |-> s.r, d |-> m.d * s.d]

\* a faulty variant: a zero rolling std gives a z-score of 0 instead of an
\* undefined one
zscore_zero_on_flat(series, window) ==
    LET mean_ == rolling_mean(series, window)
        std_ == rolling_std(series, window)
    IN  [i \in 1..Len(series) |->
            IF isna(series[i]) \/ isna(mean_[i]) \/ isna(std_[i]) THEN NaN
            ELSE IF Val(std_[i]).r = 0 THEN Some(Int2R(0))
            ELSE Over(Minus(Val(series[i]), Val(mean_[i])), Val(std_[i]))]

zscore(series, window) ==
    LET mean_ == rolling_mean(series, window)
        std_ == rolling_std(series, window)
    IN  [i \in 1..Len(series) |->
            IF isna(series[i]) \/ isna(mean_[i]) \/ isna(std_[i]) THEN NaN
            ELSE Over(Minus(Val(series[i]), Val(mean_[i])), Val(std_[i]))]

\* a faulty variant: the signs of the two bands are exchanged
bollinger_bands_swapped(series, window, k) ==
    LET mean_ == rolling_mean(series, window)
        std_ == rolling_std(series, window)
        band(sign) ==
            [i \in 1..Len(series) |->
                IF isna(mean_[i]) \/ isna(std_[i]) THEN NaN
                ELSE Some(PlusScaled(Val(mean_[i]), sign * k, Val(std_[i])))]
    IN  [mid |-> mean_, upper |-> band(-1), lower |-> band(1)]

bollinger_bands(series, window, k) ==
    LET mean_ == rolling_mean(series, window)
        std_ == rolling_std(series, window)
        band(sign) ==
            [i \in 1..Len(series) |->
                IF isna(mean_[i]) \/ isna(std_[i]) THEN NaN
                ELSE Some(PlusScaled(Val(mean_[i]), sign * k, Val(std_[i])))]
    IN  [mid |-> mean_, upper |-> band(1), lower |-> band(-1)]

\* (spread > upper_band) | (spread < lower_band), False where a side is NaN
breach_flags(spread, upper, lower) ==
    [i \in 1..Len(spread) |->
        \/ (~isna(spread[i]) /\ ~isna(upper[i]) /\ Gt(Val(spread[i]), Val(upper[i])))
        \/ (~isna(spread[i]) /\ ~isna(lower[i]) /\ Lt(Val(spread[i]), Val(lower[i])))]

\* series.diff().dropna()
diff_dropna(series) ==
    LET F[i \in 0..Len(series)] ==
            IF i = 0 THEN <<>>
            ELSE IF i = 1 \/ isna(series[i]) \/ isna(series[i - 1]) THEN F[i - 1]
            ELSE Append(F[i - 1], Some(Minus(Val(series[i]), Val(series[i - 1]))))
    IN  F[Len(series)]

\* a faulty variant: the deviation of the series itself is taken, diff() is
\* forgotten
spread_vol_of_levels(series, window) ==
    IF Len(series) < 2 THEN NaN
    ELSE LET levels == SelectSeq(series, LAMBDA x : ~isna(x))
         IN  IF Len(levels) < window
             THEN IF Len(levels) > 1 THEN std(levels) ELSE NaN
             ELSE std(tail(levels, window))

spread_vol(series, window) ==
    IF Len(series) < 2 THEN NaN
    ELSE LET diff_series == diff_dropna(series)
         IN  IF Len(diff_series) < window
             THEN IF Len(diff_series) > 1 THEN std(diff_series) ELSE NaN
             ELSE std(tail(diff_series, window))

-----------------------------------------------------------------------------
(* analytics/scanner.py: the basket scanner *)

\* ", ".join(names)
join(names) ==
    LET F[k \in 0..Len(names)] ==
            IF k = 0 THEN <<>>
            ELSE IF k = 1 THEN names[1]
            ELSE F[k - 1] \o <<",", " ">> \o names[k]
    IN  F[Len(names)]

\* the pair's computation raises (the fault the except clauses guard against)
raises(a, b, faults) == {a, b} \in faults

\* a faulty variant: a pair counts on its z-score alone, whatever the
\* latest bar of the Bollinger breach says
counts_without_latest_breach(table, a, b, st) ==
    LET spread == spread_series(table, a, b)
        zscore_series == zscore(spread, st.z_window)
    IN  /\ Len(zscore_series) # 0
        /\ ~isna(Last(zscore_series))
        /\ Ge(Abs(Val(Last(zscore_series))), Int2R(st.z_entry))

\* a faulty variant: the signed z-score is compared with z_entry
counts_signed_z(table, a, b, st) ==
    LET spread == spread_series(table, a, b)
        zscore_series == zscore(spread, st.z_window)
        bands == bollinger_bands(spread, st.z_window, st.boll_k)
        latest_breach == latest_boll_breach(spread, bands.upper, bands.lower)
    IN  /\ Len(zscore_series) # 0
        /\ ~isna(Last(zscore_series))
        /\ Ge(Val(Last(zscore_series)), Int2R(st.z_entry))
        /\ latest_breach

\* the body of the try block of one pair: TRUE iff the pair is counted
counts_as_opportunity(table, a, b, st) ==
    LET spread == spread_series(table, a, b)
        zscore_series == zscore(spread, st.z_window)
        bands == bollinger_bands(spread, st.z_window, st.boll_k)
        latest_breach == latest_boll_breach(spread, bands.upper, bands.lower)
    IN  /\ Len(zscore_series) # 0
        /\ ~isna(Last(zscore_series))
        /\ Ge(Abs(Val(Last(zscore_series))), Int2R(st.z_entry))
        /\ latest_breach

\* a faulty variant: the volatility is taken over all bars, whatever
\* analytics_window is
basket_vol_all_bars(logret, valid_tickers, st) ==
    LET br == basket_return(logret, valid_tickers)
    IN  IF ~br.ok THEN NaN
        ELSE IF Len(Val(br.value)) > 1 THEN std(Val(br.value)) ELSE NaN

\* basket volatility over the last analytics_window bars
basket_vol_of(logret, valid_tickers, st) ==
    LET br == basket_return(logret, valid_tickers)
    IN  IF ~br.ok THEN NaN
        ELSE LET basket_ret == Val(br.value)
             IN  IF Len(basket_ret) >= st.analytics_window
                 THEN LET recent_basket_ret == tail(basket_ret, st.analytics_window)
                      IN  IF Len(recent_basket_ret) > 1 THEN std(recent_basket_ret) ELSE NaN
                 ELSE IF Len(basket_ret) > 1 THEN std(basket_ret)
                 ELSE NaN

\* the pairs of the basket that are tried, in order
pairs_tried(table, valid_tickers, st) ==
    IF n_rows(table) >= st.z_window THEN combinations2(valid_tickers) ELSE <<>>

\* a faulty variant: the first pair that raises ends the basket's count
opp_count_until_raise(table, valid_tickers, st, faults) ==
    LET pairs == pairs_tried(table, valid_tickers, st)
        F[k \in 0..Len(pairs)] ==
            IF k = 0 THEN [n |-> 0, aborted |-> FALSE]
            ELSE IF F[k - 1].aborted \/ raises(pairs[k][1], pairs[k][2], faults)
                 THEN [n |-> F[k - 1].n, aborted |-> TRUE]
            ELSE IF counts_as_opportunity(table, pairs[k][1], pairs[k][2], st)
                 THEN [n |-> F[k - 1].n + 1, aborted |-> FALSE]
            ELSE F[k - 1]
    IN  F[Len(pairs)].n

\* opp_count: the tried pairs that do not raise and are classified
opp_count_of(table, valid_tickers, st, faults) ==
    LET pairs == pairs_tried(table, valid_tickers, st)
    IN  Len(SelectSeq(pairs, LAMBDA pr :
            /\ ~raises(pr[1], pr[2], faults)
            /\ counts_as_opportunity(table, pr[1], pr[2], st)))

\* abs_returns.nlargest(3): largest first, ties in column order
nlargest3(names, value(_)) ==
    LET idx == [k \in 1..Len(names) |-> k]
        order == SortBy(idx, LAMBDA x, y : value(x) > value(y))
    IN  [k \in 1..(IF Len(order) < 3 THEN Len(order) ELSE 3) |-> names[order[k]]]

\* a faulty variant: the returns are summed with their signs, abs() is
\* forgotten
top_movers_signed(logret, valid_tickers, lookback_bars) ==
    LET n == n_rows(logret)
        first == IF n >= lookback_bars THEN n - lookback_bars + 1 ELSE 1
        n_recent == n - first + 1
        signed_return(k) ==
            Sum(LAMBDA j :
                    LET x == logret.data[valid_tickers[k]][first + j - 1]
                    IN  IF isna(x) THEN 0 ELSE Val(x).p,
                n_recent)
    IN  IF n_recent = 0 \/ Len(valid_tickers) = 0 THEN <<>>
        ELSE join(nlargest3(valid_tickers, signed_return))

top_movers_of(logret, valid_tickers, lookback_bars) ==
    LET n == n_rows(logret)
        \* logret[valid_tickers].tail(lookback_bars), or all of it
        first == IF n >= lookback_bars THEN n - lookback_bars + 1 ELSE 1
        n_recent == n - first + 1
        abs_return(k) ==
            Sum(LAMBDA j :
                    LET x == logret.data[valid_tickers[k]][first + j - 1]
                    IN  IF isna(x) THEN 0 ELSE Abs(Val(x)).p,
                n_recent)
    IN  IF n_recent = 0 \/ Len(valid_tickers) = 0 THEN <<>>
        ELSE join(nlargest3(valid_tickers, abs_return))

\* a faulty variant: only a basket without any valid ticker takes the
\* short row
basket_row_guard_below_one(table, logret, basket, st, lookback_bars, faults) ==
    LET normalized_tickers == normalize_symbols(basket.tickers)
        valid_tickers == valid_tickers_of(normalized_tickers, table)
        n_tickers == Len(valid_tickers)
        pairs == pairs_tried(table, valid_tickers, st)
    IN  IF n_tickers < 1
        THEN [basket |-> basket.name, n_tickers |-> n_tickers, basket_vol |-> NaN,
              opp_count |-> 0, top_movers |-> <<>>,
              ran |-> {}, pairs |-> <<>>, tried |-> <<>>, skipped |-> <<>>]
        ELSE [basket |-> basket.name, n_tickers |-> n_tickers,
              basket_vol |-> basket_vol_of(logret, valid_tickers, st),
              opp_count |-> opp_count_of(table, valid_tickers, st, faults),
              top_movers |-> top_movers_of(logret, valid_tickers, lookback_bars),
              ran |-> {"basket_vol", "opp_count", "top_movers"},
              pairs |-> combinations2(valid_tickers),
              tried |-> pairs,
              skipped |-> SelectSeq(pairs, LAMBDA pr : raises(pr[1], pr[2], faults))]

\* one iteration of the loop over baskets: the row appended to results, with
\* (not columns of the table) the stages that ran for it, the pairs it
\* enumerated, those it tried and those it skipped on an exception
basket_row(table, logret, basket, st, lookback_bars, faults) ==
    LET normalized_tickers == normalize_symbols(basket.tickers)
        valid_tickers == valid_tickers_of(normalized_tickers, table)
        n_tickers == Len(valid_tickers)
        pairs == pairs_tried(table, valid_tickers, st)
    IN  IF n_tickers < 2
        THEN [basket |-> basket.name, n_tickers |-> n_tickers, basket_vol |-> NaN,
              opp_count |-> 0, top_movers |-> <<>>,
              ran |-> {}, pairs |-> <<>>, tried |-> <<>>, skipped |-> <<>>]
        ELSE [basket |-> basket.name, n_tickers |-> n_tickers,
              basket_vol |-> basket_vol_of(logret, valid_tickers, st),
              opp_count |-> opp_count_of(table, valid_tickers, st, faults),
              top_movers |-> top_movers_of(logret, valid_tickers, lookback_bars),
              ran |-> {"basket_vol", "opp_count", "top_movers"},
              pairs |-> combinations2(valid_tickers),
              tried |-> pairs,
              skipped |-> SelectSeq(pairs, LAMBDA pr : raises(pr[1], pr[2], faults))]

\* a faulty variant: the sort keys are swapped, opp_count decides first
basket_row_before_opp_first(x, y) ==
    LET vx == x.basket_vol
        vy == y.basket_vol
    IN  \/ x.opp_count > y.opp_count
        \/ /\ x.opp_count = y.opp_count
           /\ \/ ~isna(vx) /\ isna(vy)
              \/ ~isna(vx) /\ ~isna(vy) /\ Gt(Val(vx), Val(vy))

\* sort_values(["basket_vol", "opp_count"], ascending=[False, False],
\*             na_position="last")
basket_row_before(x, y) ==
    LET vx == x.basket_vol
        vy == y.basket_vol
    IN  \/ ~isna(vx) /\ isna(vy)
        \/ ~isna(vx) /\ ~isna(vy) /\ Gt(Val(vx), Val(vy))
        \/ /\ (isna(vx) /\ isna(vy)) \/ (~isna(vx) /\ ~isna(vy) /\ Eq(Val(vx), Val(vy)))
           /\ x.opp_count > y.opp_count

scan_baskets(table, universe, st, lookback_bars, faults) ==
    LET logret == log_returns(table)
        results == [k \in 1..Len(universe) |->
                        basket_row(table, logret, universe[k], st, lookback_bars, faults)]
    IN  [raised |-> FALSE,
         rows |-> IF Len(results) # 0 THEN SortBy(results, basket_row_before) ELSE results]

-----------------------------------------------------------------------------
(* analytics/scanner.py: the pair scanner *)

_compute_spread(table, a, b) == spread_series(table, a, b)

_compute_zscore(spread, window) == zscore(spread, window)

_compute_bollinger_bands(spread, window, k) ==
    LET bands == bollinger_bands(spread, window, k)
    IN  [upper |-> bands.upper, lower |-> bands.lower]

_detect_bollinger_breach(spread, upper_band, lower_band) ==
    breach_flags(spread, upper_band, lower_band)

\* a faulty variant: the scanner reports spread_vol(spread, analytics_window),
\* as the pages do
scan_pair_row_differenced(table, logret, a, b, st, faults) ==
    LET spread == _compute_spread(table, a, b)
        z == _compute_zscore(spread, st.z_window)
        bands == _compute_bollinger_bands(spread, st.z_window, st.boll_k)
        breach == _detect_bollinger_breach(spread, bands.upper, bands.lower)
        corr_value == pair_corr_latest(logret, a, b, st.analytics_window)
    IN  IF raises(a, b, faults) \/ ~corr_value.ok THEN Raised
        ELSE Returned(
            [a |-> a, b |-> b,
             z |-> IF Len(z) # 0 /\ ~isna(Last(z)) THEN Last(z) ELSE NaN,
             boll_breach |-> IF Len(breach) # 0 THEN Last(breach) ELSE FALSE,
             bars_since_breach |->
                 _compute_bars_since_breach([index |-> table.index, values |-> breach]),
             corr |-> Val(corr_value.value),
             spread_vol |-> spread_vol(spread, st.analytics_window)])

\* the try block of one pair: the row, or Raised
scan_pair_row(table, logret, a, b, st, faults) ==
    LET spread == _compute_spread(table, a, b)
        z == _compute_zscore(spread, st.z_window)
        bands == _compute_bollinger_bands(spread, st.z_window, st.boll_k)
        breach == _detect_bollinger_breach(spread, bands.upper, bands.lower)
        corr_value == pair_corr_latest(logret, a, b, st.analytics_window)
        rolling_std_ == rolling_std(spread, st.analytics_window)
    IN  IF raises(a, b, faults) \/ ~corr_value.ok THEN Raised
        ELSE Returned(
            [a |-> a, b |-> b,
             z |-> IF Len(z) # 0 /\ ~isna(Last(z)) THEN Last(z) ELSE NaN,
             boll_breach |-> IF Len(breach) # 0 THEN Last(breach) ELSE FALSE,
             bars_since_breach |->
                 _compute_bars_since_breach([index |-> table.index, values |-> breach]),
             corr |-> Val(corr_value.value),
             spread_vol |-> IF Len(rolling_std_) # 0 /\ ~isna(Last(rolling_std_))
                            THEN Last(rolling_std_) ELSE NaN])

\* results.append(row) when the try block returned, nothing when it raised
append_result(results, row) ==
    IF row.ok THEN Append(results, Val(row.value)) ELSE results

\* one turn of the loop: a pair with a ticker that is not a column is
\* skipped, any other is tried
scan_pairs_step(results, table, logret, a, b, st, faults) ==
    IF ~in_columns(a, table) \/ ~in_columns(b, table) THEN results
    ELSE append_result(results, scan_pair_row(table, logret, a, b, st, faults))

\* the loop over the pairs: the rows appended to results, in the order of the
\* pairs
scan_pairs_loop(table, logret, pairs, st, faults) ==
    LET F[k \in 0..Len(pairs)] ==
            IF k = 0 THEN <<>>
            ELSE scan_pairs_step(F[k - 1], table, logret, pairs[k][1], pairs[k][2],
                                 st, faults)
    IN  F[Len(pairs)]

scan_pairs_results(table, basket_tickers, st, faults) ==
    scan_pairs_loop(table, log_returns(table), combinations2(basket_tickers), st, faults)

\* df.sort_values("abs_z", ascending=False, na_last=True): sort_values has no
\* parameter na_last, the call raises TypeError
sort_values_na_last(rows) == Raised

\* the sort is reached only when the frame is not empty
sort_results(results) ==
    IF Len(results) # 0 THEN sort_values_na_last(results) ELSE Returned(results)

\* what the caller gets: the frame, or the exception of the sort
scan_pairs_outcome(df, pairs) ==
    [raised |-> ~df.ok,
     rows |-> IF df.ok THEN Val(df.value) ELSE <<>>,
     pairs |-> pairs]

scan_pairs_in_basket(table, basket_tickers, st, faults) ==
    scan_pairs_outcome(
        sort_results(scan_pairs_results(table, basket_tickers, st, faults)),
        \* the pairs that pass the column check of the loop
        SelectSeq(combinations2(basket_tickers), LAMBDA pr :
            in_columns(pr[1], table) /\ in_columns(pr[2], table)))

-----------------------------------------------------------------------------
(* pages/3_Pair_Explorer.py and pages/2_Basket_Explorer.py *)

\* the try block of one pair in the Pair Explorer: the row, or Raised
pair_explorer_row(table, logret, a, b, st, faults) ==
    LET spread == spread_series(table, a, b)
        zscore_series == zscore(spread, st.z_window)
        latest_z == IF Len(zscore_series) # 0 /\ ~isna(Last(zscore_series))
                    THEN Last(zscore_series) ELSE NaN
        bands == bollinger_bands(spread, st.z_window, st.boll_k)
        breach_series == breach_flags(spread, bands.upper, bands.lower)
        boll_breach_latest == latest_boll_breach(spread, bands.upper, bands.lower)
        corr == pair_corr_latest(logret, a, b, st.analytics_window)
    IN  IF raises(a, b, faults) \/ ~corr.ok THEN Raised
        ELSE Returned(
            [a |-> a, b |-> b, z |-> latest_z, boll_breach |-> boll_breach_latest,
             bars_since_breach |->
                 compute_bars_since_breach([index |-> table.index, values |-> breach_series]),
             corr |-> Val(corr.value),
             spread_vol |-> spread_vol(spread, st.analytics_window),
             opportunity |-> /\ ~isna(latest_z)
                             /\ Ge(Abs(Val(latest_z)), Int2R(st.z_entry))
                             /\ boll_breach_latest,
             error |-> FALSE])

\* the row appended when the pair's computation raised
error_row(a, b) ==
    [a |-> a, b |-> b, z |-> NaN, boll_breach |-> FALSE, bars_since_breach |-> NaN,
     corr |-> NaN, spread_vol |-> NaN, opportunity |-> FALSE, error |-> TRUE]

\* the basket's usable tickers, as both pages resolve them
page_valid_tickers(table, universe, basket_name) ==
    LET basket == CHOOSE b \in {universe[k] : k \in 1..Len(universe)} : b.name = basket_name
    IN  valid_tickers_of(normalize_symbols(basket.tickers), table)

\* pairs_data.append(...): the computed row, or the error row of the except
\* branch
pairs_data_entry(row, a, b) ==
    IF row.ok THEN Val(row.value) ELSE error_row(a, b)

\* a faulty variant of the Pair Explorer's table: a pair that raises is
\* skipped instead of recorded
pairs_data_skipping(table, logret, pairs, st, faults) ==
    LET F[k \in 0..Len(pairs)] ==
            IF k = 0 THEN <<>>
            ELSE append_result(F[k - 1],
                     pair_explorer_row(table, logret, pairs[k][1], pairs[k][2],
                                       st, faults))
    IN  F[Len(pairs)]

\* pairs_data of the Pair Explorer (df_all), one entry per pair
pairs_data_of(table, logret, pairs, st, faults) ==
    [k \in 1..Len(pairs) |->
        pairs_data_entry(pair_explorer_row(table, logret, pairs[k][1], pairs[k][2],
                                           st, faults),
                         pairs[k][1], pairs[k][2])]

\* the page st.stop()s when it has no usable pair of tickers or no pairs_data
pair_explorer_page(valid_tickers, pairs, pairs_data) ==
    IF Len(valid_tickers) < 2 THEN [stopped |-> TRUE, pairs |-> <<>>, rows |-> <<>>]
    ELSE [stopped |-> Len(pairs_data) = 0, pairs |-> pairs, rows |-> pairs_data]

pair_explorer_pairs(table, valid_tickers, pairs, st, faults) ==
    pair_explorer_page(valid_tickers, pairs,
                       pairs_data_of(table, log_returns(table), pairs, st, faults))

pair_explorer_tickers(table, valid_tickers, st, faults) ==
    pair_explorer_pairs(table, valid_tickers, combinations2(sorted(valid_tickers)),
                        st, faults)

pair_explorer(table, universe, basket_name, st, faults) ==
    pair_explorer_tickers(table, page_valid_tickers(table, universe, basket_name),
                          st, faults)

\* np.isna(latest_z): the module numpy has no attribute isna, the lookup
\* raises AttributeError
np_isna(x) == Raised

\* latest_z when the flag is evaluated, if the statements before it returned
latest_z_of(computed) == IF computed.ok THEN Val(computed.value).z ELSE NaN

\* the try block of one pair in the opportunities table of the Basket
\* Explorer: `computed` is the outcome of the statements before the
\* opportunity flag, which are those of the Pair Explorer; the flag then
\* evaluates np.isna.  The block raises when either does.
opportunities_row(computed) ==
    IF ~np_isna(latest_z_of(computed)).ok \/ ~computed.ok THEN Raised
    ELSE Returned(
        [a |-> Val(computed.value).a, b |-> Val(computed.value).b,
         z |-> Val(computed.value).z,
         boll_breach |-> Val(computed.value).boll_breach,
         bars_since_breach |-> Val(computed.value).bars_since_breach,
         corr |-> Val(computed.value).corr,
         spread_vol |-> Val(computed.value).spread_vol,
         opportunity |-> /\ ~Val(np_isna(latest_z_of(computed)).value)
                         /\ Val(computed.value).opportunity])

\* opportunities_data of the Basket Explorer: a pair whose try block raises
\* is skipped
opportunities_data_of(table, logret, pairs, st, faults) ==
    LET F[k \in 0..Len(pairs)] ==
            IF k = 0 THEN <<>>
            ELSE append_result(F[k - 1],
                     opportunities_row(
                         pair_explorer_row(table, logret, pairs[k][1], pairs[k][2],
                                           st, faults)))
    IN  F[Len(pairs)]

\* opp_count and opportunities_data of the Basket Explorer
basket_explorer_page(table, valid_tickers, pairs, st, faults) ==
    IF Len(valid_tickers) < 2
    THEN [stopped |-> TRUE, pairs |-> <<>>, opp_count |-> 0, rows |-> <<>>]
    ELSE [stopped |-> FALSE, pairs |-> pairs,
          opp_count |-> Len(SelectSeq(pairs, LAMBDA pr :
                            /\ ~raises(pr[1], pr[2], faults)
                            /\ counts_as_opportunity(table, pr[1], pr[2], st))),
          rows |-> opportunities_data_of(table, log_returns(table), pairs, st, faults)]

basket_explorer_tickers(table, valid_tickers, st, faults) ==
    basket_explorer_page(table, valid_tickers, combinations2(sorted(valid_tickers)),
                         st, faults)

basket_explorer(table, universe, basket_name, st, faults) ==
    basket_explorer_tickers(table, page_valid_tickers(table, universe, basket_name),
                            st, faults)

-----------------------------------------------------------------------------
(* Specification SpecBars: bars-since-breach helpers applied to every      *)
(* boolean breach series of at most MaxBars bars over a sorted, unique     *)
(* index.                                                                  *)

Unused == <<>>

BreachSeriesInputs ==
    {[index |-> HourlyIndex(Len(v)), values |-> v] : v \in SeqsUpTo(BOOLEAN, MaxBars)}

InitBars ==
    /\ args \in {[breach_series |-> s] : s \in BreachSeriesInputs}
    /\ ret = <<>>
    /\ prices_wide = Unused /\ baskets = Unused /\ settings = Unused
    /\ failing = Unused /\ view = Unused
    /\ session_state = Unused /\ now = 0

ScannerBarsSinceBreach ==
    /\ ret = <<>>
    /\ ret' = <<[by |-> "scanner", value |-> _compute_bars_since_breach(args.breach_series)]>>
    /\ UNCHANGED <<scanInputs, session, view, args>>

PageBarsSinceBreach ==
    /\ ret = <<>>
    /\ ret' = <<[by |-> "page", value |-> compute_bars_since_breach(args.breach_series)]>>
    /\ UNCHANGED <<scanInputs, session, view, args>>

NextBars == ScannerBarsSinceBreach \/ PageBarsSinceBreach

SpecBars == InitBars /\ [][NextBars]_vars

\* position (1-based) of the most recent TRUE of a non-empty set of positions
MaxOf(S) == CHOOSE m \in S : \A x \in S : x <= m

\* C3: bars_since_breach is 0 when the last bar is a breach, otherwise the
\* number of bars between the most recent breach and the last bar, and
\* undefined when the series is empty or has no breach at all.
C3_BarsSinceBreach ==
    ret # <<>> =>
        LET v == args.breach_series.values
            n == Len(v)
            trues == {i \in 1..n : v[i]}
        IN  /\ (n = 0 \/ trues = {}) => Val(ret).value = NaN
            /\ (n > 0 /\ v[n]) => Val(ret).value = Some(0)
            /\ (trues # {}) => Val(ret).value = Some(n - MaxOf(trues))

\* C3 witness: [F,F,T,F,F] was given to the helper, which answered 2
C3_Witness ==
    /\ ret # <<>>
    /\ args.breach_series.values = <<FALSE, FALSE, TRUE, FALSE, FALSE>>
    /\ Val(ret).value = Some(2)

-----------------------------------------------------------------------------
(* Specification SpecBreach: latest_boll_breach applied to every series    *)
(* and pair of bands of at most MaxBandLen points, each point undefined or *)
(* in 0..MaxBandVal.                                                       *)

BandPoints == {NaN} \cup {Some(Int2R(x)) : x \in 0..MaxBandVal}

BandSeries == SeqsUpTo(BandPoints, MaxBandLen)

InitBreach ==
    /\ args \in [series : BandSeries, upper : BandSeries, lower : BandSeries]
    /\ ret = <<>>
    /\ prices_wide = Unused /\ baskets = Unused /\ settings = Unused
    /\ failing = Unused /\ view = Unused
    /\ session_state = Unused /\ now = 0

LatestBollBreach ==
    /\ ret = <<>>
    /\ ret' = <<latest_boll_breach(args.series, args.upper, args.lower)>>
    /\ UNCHANGED <<scanInputs, session, view, args>>

NextBreach == LatestBollBreach

SpecBreach == InitBreach /\ [][NextBreach]_vars

\* C4: latest_boll_breach is false when the series or a band is empty or a
\* latest value is undefined; otherwise it is true iff the latest value is
\* strictly above the latest upper band or strictly below the latest lower.
C4_LatestBollBreach ==
    ret # <<>> =>
        LET s == args.series
            u == args.upper
            l == args.lower
        IN  IF Len(s) = 0 \/ Len(u) = 0 \/ Len(l) = 0 THEN Val(ret) = FALSE
            ELSE IF Last(s) = NaN \/ Last(u) = NaN \/ Last(l) = NaN THEN Val(ret) = FALSE
            ELSE Val(ret) = (\/ Val(Last(s)).p > Val(Last(u)).p
                             \/ Val(Last(s)).p < Val(Last(l)).p)

\* C4 witness: the latest value equals the upper band and is within the
\* lower one, after an earlier bar above the band: no breach is reported
C4_Witness ==
    /\ ret # <<>>
    /\ Len(args.series) = 2 /\ Len(args.upper) = 2 /\ Len(args.lower) = 2
    /\ args.series = <<Some(Int2R(1)), Some(Int2R(1))>>
    /\ args.upper = <<Some(Int2R(0)), Some(Int2R(1))>>
    /\ args.lower = <<Some(Int2R(0)), Some(Int2R(0))>>
    /\ Val(ret) = FALSE

-----------------------------------------------------------------------------
(* Specification SpecScan: the scanners and the pages over bounded price   *)
(* tables, a universe of baskets and a few parameter sets.                 *)

AUSD == <<"A", "U", "S", "D">>
BUSD == <<"B", "U", "S", "D">>
CUSD == <<"C", "U", "S", "D">>
DUSD == <<"D", "U", "S", "D">>

ColA == <<"A">> \o USDT_PERP
ColB == <<"B">> \o USDT_PERP
ColC == <<"C">> \o USDT_PERP

\* log prices a cell may hold, relative to the price at listing
LogPrices == {0, 1}

\* a column of n bars: missing until the instrument is listed (at log price
\* 0), then priced
ListedColumns(n) ==
    {[i \in 1..n |-> IF i <= n - Len(v) THEN NaN ELSE Some(v[i - (n - Len(v))])] :
        v \in {u \in SeqsUpTo(LogPrices, n) : Len(u) > 0 => u[1] = 0}}

\* a column of n bars of an instrument whose price never moves
FlatColumn(n) == [i \in 1..n |-> Some(0)]

EmptyTable == [index |-> <<>>, columns |-> <<>>, data |-> <<>>]

Tables ==
    {EmptyTable} \cup
    UNION {{[index |-> HourlyIndex(n), columns |-> <<ColA, ColB, ColC>>,
             data |-> (ColA :> ca) @@ (ColB :> cb) @@ (ColC :> FlatColumn(n))] :
                ca \in ListedColumns(n), cb \in ListedColumns(n)} : n \in 0..MaxRows}

\* BASKETS: raw symbols, some unlisted, in no particular order
Universe ==
    << [name |-> "ba", tickers |-> <<BUSD, AUSD>>],
       [name |-> "cab", tickers |-> <<CUSD, AUSD, BUSD>>],
       [name |-> "bc", tickers |-> <<<<" ", "b", "u", "s", "d">>, <<"C", "U", "S", "D", "T">>>>],
       [name |-> "ad", tickers |-> <<AUSD, DUSD>>] >>

BasketNames == {Universe[k].name : k \in 1..Len(Universe)}

SettingsChoices ==
    { [z_window |-> 2, analytics_window |-> 2, boll_k |-> 0, z_entry |-> 0],
      [z_window |-> 3, analytics_window |-> 1, boll_k |-> 1, z_entry |-> 0],
      [z_window |-> 3, analytics_window |-> 4, boll_k |-> 0, z_entry |-> 1] }

LookbackChoices == {2}

\* the parameter sets, and with the first of them a pair that raises
ParameterChoices ==
    {<<st, {}>> : st \in SettingsChoices}
        \cup {<<[z_window |-> 2, analytics_window |-> 2, boll_k |-> 0, z_entry |-> 0],
                {{ColA, ColC}}>>}

NoView == [page |-> "none", basket |-> "", lookback |-> 0, out |-> <<>>]

InitScan ==
    /\ prices_wide \in Tables
    /\ baskets = Universe
    /\ \E choice \in ParameterChoices : settings = choice[1] /\ failing = choice[2]
    /\ view = NoView
    /\ args = Unused /\ ret = Unused
    /\ session_state = Unused /\ now = 0

\* pages/1_Overview.py
RenderOverview ==
    /\ view.page = "none"
    /\ \E lookback_bars \in LookbackChoices :
        view' = [page |-> "overview", basket |-> "", lookback |-> lookback_bars,
                 out |-> <<scan_baskets(prices_wide, baskets, settings, lookback_bars, failing)>>]
    /\ UNCHANGED <<scanInputs, session, args, ret>>

\* pages/3_Pair_Explorer.py
RenderPairExplorer ==
    /\ view.page = "none"
    /\ \E basket_name \in BasketNames :
        view' = [page |-> "pair_explorer", basket |-> basket_name, lookback |-> 0,
                 out |-> <<pair_explorer(prices_wide, baskets, basket_name, settings, failing)>>]
    /\ UNCHANGED <<scanInputs, session, args, ret>>

\* pages/2_Basket_Explorer.py
RenderBasketExplorer ==
    /\ view.page = "none"
    /\ \E basket_name \in BasketNames :
        view' = [page |-> "basket_explorer", basket |-> basket_name, lookback |-> 0,
                 out |-> <<basket_explorer(prices_wide, baskets, basket_name, settings, failing)>>]
    /\ UNCHANGED <<scanInputs, session, args, ret>>

\* a caller of scan_pairs_in_basket with a basket's normalised tickers
CallScanPairs ==
    /\ view.page = "none"
    /\ \E k \in 1..Len(baskets) :
        view' = [page |-> "scan_pairs", basket |-> baskets[k].name, lookback |-> 0,
                 out |-> <<scan_pairs_in_basket(prices_wide,
                                                normalize_symbols(baskets[k].tickers),
                                                settings, failing)>>]
    /\ UNCHANGED <<scanInputs, session, args, ret>>

\* the script reruns: the page is cleared before it renders again
Rerun ==
    /\ view.page # "none"
    /\ view' = NoView
    /\ UNCHANGED <<scanInputs, session, args, ret>>

NextScan ==
    \/ RenderOverview
    \/ RenderPairExplorer
    \/ RenderBasketExplorer
    \/ CallScanPairs
    \/ Rerun

SpecScan == InitScan /\ [][NextScan]_vars

-----------------------------------------------------------------------------
(* Properties of SpecScan *)

\* what the page or call last rendered computed
Shown == Val(view.out)

OverviewRows == Shown.rows

Reverse(s) == [i \in 1..Len(s) |-> s[Len(s) + 1 - i]]

\* the number of a basket's raw tickers whose symbol is a column of the table
ValidCount(basket) ==
    Cardinality({j \in 1..Len(basket.tickers) :
                    in_columns(to_ccxt_symbol(basket.tickers[j]), prices_wide)})

\* pairs lists every unordered pair of n tickers exactly once, each as
\* (a, b) with a lexically less than b
EnumeratesPairs(pairs, n) ==
    /\ Len(pairs) * 2 = n * (n - 1)
    /\ \A i, j \in 1..Len(pairs) :
          i # j => {pairs[i][1], pairs[i][2]} # {pairs[j][1], pairs[j][2]}
    /\ \A i \in 1..Len(pairs) : StrLt(pairs[i][1], pairs[i][2])

\* C1: for a basket of n valid tickers, the pair enumeration of
\* scan_pairs_in_basket, of scan_baskets and of the pair pages yields exactly
\* n*(n-1)/2 pairs, each unordered pair once, with a lexically less than b,
\* whatever the order in which the basket lists its tickers.
C1_PairEnumeration ==
    /\ view.page = "overview" =>
          \A i \in 1..Len(OverviewRows) :
              OverviewRows[i].n_tickers >= 2 =>
                  EnumeratesPairs(OverviewRows[i].pairs, OverviewRows[i].n_tickers)
    /\ view.page = "scan_pairs" =>
          EnumeratesPairs(Shown.pairs,
                          Len(page_valid_tickers(prices_wide, baskets, view.basket)))
    /\ (view.page \in {"pair_explorer", "basket_explorer"} /\ ~Shown.stopped) =>
          EnumeratesPairs(Shown.pairs,
                          Len(page_valid_tickers(prices_wide, baskets, view.basket)))

\* the latest z-score of the pair (a, b), NaN when there is none
LatestZ(a, b) ==
    LET z == zscore(spread_series(prices_wide, a, b), settings.z_window)
    IN  IF Len(z) = 0 THEN NaN ELSE Last(z)

\* the Bollinger breach flag of the pair (a, b) at the latest bar
LatestFlag(a, b) ==
    LET spread == spread_series(prices_wide, a, b)
        bands == bollinger_bands(spread, settings.z_window, settings.boll_k)
        flags == breach_flags(spread, bands.upper, bands.lower)
    IN  Len(flags) # 0 /\ Last(flags)

\* the definition of an opportunity
IsOpportunity(a, b) ==
    LET z == LatestZ(a, b)
    IN  /\ ~isna(z)
        /\ Ge(Abs(Val(z)), Int2R(settings.z_entry))
        /\ LatestFlag(a, b)

\* the pairs of a list that do not raise and are opportunities
Opportunities(pairs) ==
    {k \in 1..Len(pairs) :
        /\ {pairs[k][1], pairs[k][2]} \notin failing
        /\ IsOpportunity(pairs[k][1], pairs[k][2])}

\* C2: a pair is an opportunity iff its latest z-score is defined,
\* |z| >= z_entry and the Bollinger breach flag is true at the latest bar; a
\* breach at an earlier bar only, or |z| >= z_entry without a latest breach,
\* never makes it one.  Checked on the rows of the Pair Explorer and on the
\* count of scan_baskets.
C2_OpportunityClassification ==
    /\ view.page = "pair_explorer" =>
          \A k \in 1..Len(Shown.rows) :
              LET row == Shown.rows[k]
              IN  ~row.error =>
                    /\ row.opportunity <=> IsOpportunity(row.a, row.b)
                    /\ row.opportunity <=>
                          (/\ ~isna(row.z)
                           /\ Ge(Abs(Val(row.z)), Int2R(settings.z_entry))
                           /\ row.boll_breach)
                    /\ row.opportunity => row.bars_since_breach = Some(0)
    /\ view.page = "overview" =>
          \A i \in 1..Len(OverviewRows) :
              OverviewRows[i].opp_count
                  = Cardinality(Opportunities(OverviewRows[i].tried))

\* C2 witness: the Pair Explorer shows a pair whose |z| reaches z_entry and
\* whose band was breached at an earlier bar, not at the latest: it is no
\* opportunity
C2_Witness ==
    /\ view.page = "pair_explorer"
    /\ \E k \in 1..Len(Shown.rows) :
          LET row == Shown.rows[k]
          IN  /\ ~row.error
              /\ ~isna(row.z)
              /\ Ge(Abs(Val(row.z)), Int2R(settings.z_entry))
              /\ ~row.boll_breach
              /\ ~isna(row.bars_since_breach)
              /\ Val(row.bars_since_breach) > 0
              /\ ~row.opportunity

\* C5: scan_pairs_in_basket and scan_baskets always return a table and never
\* raise, for every price table and every ticker list or basket mapping.
C5_ScansAlwaysReturn ==
    view.page \in {"overview", "scan_pairs"} => ~Shown.raised

\* C6: in scan_baskets a pair whose computation raises is skipped alone: the
\* other pairs of the basket are still evaluated and counted, the other
\* baskets are still scanned, and there is exactly one row per basket.
C6_PairFailureIsolated ==
    view.page = "overview" =>
        /\ ~Shown.raised
        /\ Len(OverviewRows) = Len(baskets)
        /\ \A k \in 1..Len(baskets) :
              Cardinality({i \in 1..Len(OverviewRows) :
                              OverviewRows[i].basket = baskets[k].name}) = 1
        /\ \A i \in 1..Len(OverviewRows) :
              LET row == OverviewRows[i]
              IN  (row.n_tickers >= 2 /\ n_rows(prices_wide) >= settings.z_window) =>
                    /\ row.tried = row.pairs
                    /\ Len(row.pairs) * 2 = row.n_tickers * (row.n_tickers - 1)
                    /\ row.opp_count = Cardinality(Opportunities(row.pairs))

\* C6 witness: the first pair of basket "cab" raised, a later pair of it was
\* counted, and the basket scanned after it has its count too
C6_Witness ==
    /\ view.page = "overview"
    /\ \E i, j \in 1..Len(OverviewRows) :
          /\ OverviewRows[i].basket = "cab"
          /\ Len(OverviewRows[i].skipped) = 1
          /\ OverviewRows[i].skipped[1] = OverviewRows[i].tried[1]
          /\ OverviewRows[i].opp_count > 0
          /\ OverviewRows[j].basket = "bc"
          /\ OverviewRows[j].opp_count > 0

\* C7: a basket with fewer than 2 valid tickers gives exactly one row, with
\* n_tickers that count, basket_vol undefined, opp_count 0 and top_movers
\* "", and none of the volatility, pair or top-mover computations runs.
C7_TooFewTickers ==
    view.page = "overview" =>
        \A k \in 1..Len(baskets) :
            ValidCount(baskets[k]) < 2 =>
                /\ Cardinality({i \in 1..Len(OverviewRows) :
                                  OverviewRows[i].basket = baskets[k].name}) = 1
                /\ \A i \in 1..Len(OverviewRows) :
                      OverviewRows[i].basket = baskets[k].name =>
                          /\ OverviewRows[i].n_tickers = ValidCount(baskets[k])
                          /\ isna(OverviewRows[i].basket_vol)
                          /\ OverviewRows[i].opp_count = 0
                          /\ OverviewRows[i].top_movers = <<>>
                          /\ OverviewRows[i].ran = {}
                          /\ OverviewRows[i].tried = <<>>

\* C7 witness: over a table of several bars, basket "ad" has one valid
\* ticker and the short row, next to a basket with a defined volatility
C7_Witness ==
    /\ view.page = "overview"
    /\ n_rows(prices_wide) >= 3
    /\ \E i, j \in 1..Len(OverviewRows) :
          /\ OverviewRows[i].basket = "ad"
          /\ OverviewRows[i].n_tickers = 1
          /\ isna(OverviewRows[i].basket_vol)
          /\ OverviewRows[i].ran = {}
          /\ ~isna(OverviewRows[j].basket_vol)

\* C8: the table of scan_baskets is ordered by basket_vol descending, rows of
\* equal basket_vol by opp_count descending, and every row with an undefined
\* basket_vol comes after every row with a defined one, whatever its
\* opp_count.
C8_SortOrder ==
    view.page = "overview" =>
        \A i, j \in 1..Len(OverviewRows) :
            i < j =>
                LET x == OverviewRows[i].basket_vol
                    y == OverviewRows[j].basket_vol
                IN  /\ isna(x) => isna(y)
                    /\ (~isna(x) /\ ~isna(y)) => Ge(Val(x), Val(y))
                    /\ (~isna(x) /\ ~isna(y) /\ Eq(Val(x), Val(y))) =>
                          OverviewRows[i].opp_count >= OverviewRows[j].opp_count

\* C8 witness: a row with a defined volatility and no opportunity stands
\* ahead of a row of a basket of two tickers with an undefined volatility
\* and an opportunity
C8_Witness ==
    /\ view.page = "overview"
    /\ \E i, j \in 1..Len(OverviewRows) :
          /\ i < j
          /\ ~isna(OverviewRows[i].basket_vol)
          /\ OverviewRows[i].opp_count = 0
          /\ isna(OverviewRows[j].basket_vol)
          /\ OverviewRows[j].opp_count > 0

\* the universe with every basket listing its tickers in the reverse order
ReversedBaskets == [k \in 1..Len(baskets) |->
                       [baskets[k] EXCEPT !.tickers = Reverse(baskets[k].tickers)]]

\* C9: for a basket with at least 2 valid tickers, opp_count of scan_baskets
\* is the number of pairs the Pair Explorer and the Basket Explorer (over
\* the sorted valid tickers) classify as opportunities; it is 0 when the
\* table has fewer rows than z_window, and it is the same when the basket
\* lists its tickers in another order.
C9_OppCountAgreement ==
    view.page = "overview" =>
        LET other == scan_baskets(prices_wide, ReversedBaskets, settings,
                                  view.lookback, failing).rows
        IN  \A i \in 1..Len(OverviewRows) :
            LET row == OverviewRows[i]
                pe == pair_explorer(prices_wide, baskets, row.basket, settings, failing)
                be == basket_explorer(prices_wide, baskets, row.basket, settings, failing)
            IN  row.n_tickers >= 2 =>
                  /\ row.opp_count
                        = Cardinality({k \in 1..Len(pe.rows) : pe.rows[k].opportunity})
                  /\ row.opp_count = be.opp_count
                  /\ n_rows(prices_wide) < settings.z_window => row.opp_count = 0
                  /\ \A k \in 1..Len(other) :
                        other[k].basket = row.basket => other[k].opp_count = row.opp_count

\* C9 witness: basket "ba" lists B before A, scan_baskets tried the pair
\* (B, A), whose latest z-score is negative, and counted it
C9_Witness ==
    /\ view.page = "overview"
    /\ \E i \in 1..Len(OverviewRows) :
          /\ OverviewRows[i].basket = "ba"
          /\ OverviewRows[i].tried = << <<ColB, ColA>> >>
          /\ OverviewRows[i].opp_count = 1
          /\ ~isna(LatestZ(ColB, ColA))
          /\ Lt(Val(LatestZ(ColB, ColA)), Int2R(0))

\* v is the sample standard deviation of the rationals xs: v >= 0 and
\* v^2 * n * (n - 1) is the sum over i < j of (xs[i] - xs[j])^2
IsSampleStd(v, xs) ==
    LET n == Len(xs)
        K == LET F[k \in 0..n] == IF k = 0 THEN 1 ELSE lcm(F[k - 1], xs[k].d)
             IN  F[n]
        y(k) == xs[k].p * (K \div xs[k].d)
        SS == Sum(LAMBDA i :
                    Sum(LAMBDA j : IF i < j THEN (y(i) - y(j)) * (y(i) - y(j)) ELSE 0, n),
                  n)
    IN  /\ v.p = 0 /\ v.d > 0 /\ v.q >= 0
        /\ v.q * v.q * v.r * K * K * n * (n - 1) = v.d * v.d * SS

\* the equal-weight return series of a basket of the universe
BasketReturns(name) ==
    Val(basket_return(log_returns(prices_wide),
                      page_valid_tickers(prices_wide, baskets, name)).value)

\* C10: for a basket with at least 2 valid tickers whose equal-weight return
\* series has L bars, basket_vol is the sample standard deviation of the
\* last analytics_window bars when L >= analytics_window, of all L bars when
\* 1 < L < analytics_window, and undefined when L <= 1 or when fewer than 2
\* of the selected bars are defined.
C10_BasketVolWindow ==
    view.page = "overview" =>
        \A i \in 1..Len(OverviewRows) :
            LET row == OverviewRows[i]
                basket_ret == BasketReturns(row.basket)
                L == Len(basket_ret)
                selected == IF L >= settings.analytics_window
                            THEN SubSeq(basket_ret, L - settings.analytics_window + 1, L)
                            ELSE basket_ret
                defined == SelectSeq(selected, LAMBDA x : ~isna(x))
            IN  row.n_tickers >= 2 =>
                  IF L <= 1 \/ Len(defined) < 2 THEN isna(row.basket_vol)
                  ELSE /\ ~isna(row.basket_vol)
                       /\ IsSampleStd(Val(row.basket_vol),
                                      [k \in 1..Len(defined) |-> Val(defined[k])])

\* C10 witness: the return series is longer than analytics_window and its
\* volatility over the window differs from the one over all bars
C10_Witness ==
    /\ view.page = "overview"
    /\ settings.analytics_window >= 2
    /\ \E i \in 1..Len(OverviewRows) :
          LET row == OverviewRows[i]
          IN  /\ row.n_tickers >= 2
              /\ Len(BasketReturns(row.basket)) > settings.analytics_window
              /\ ~isna(row.basket_vol)
              /\ ~isna(std(BasketReturns(row.basket)))
              /\ ~Eq(Val(row.basket_vol), Val(std(BasketReturns(row.basket))))

-----------------------------------------------------------------------------
(* Specification SpecMovers: the top movers of scan_baskets over price     *)
(* tables of four columns and at most MaxMoverRows bars, for baskets of 2  *)
(* to 4 valid tickers.                                                     *)

ColD == <<"D">> \o USDT_PERP

\* the price tables of n bars
MoverTables(n) ==
    {[index |-> HourlyIndex(n), columns |-> <<ColA, ColB, ColC, ColD>>,
      data |-> (ColA :> ca) @@ (ColB :> cb) @@ (ColC :> cc) @@ (ColD :> FlatColumn(n))] :
        ca \in ListedColumns(n), cb \in ListedColumns(n), cc \in ListedColumns(n)}

\* valid_tickers of a basket: distinct columns, in the order of the basket
MoverTickers ==
    { <<ColA, ColB>>, <<ColC, ColA, ColB>>, <<ColD, ColC, ColA, ColB>>,
      <<ColB, ColD, ColA, ColC>> }

MoverLookbacks == {1, 2}

InitMovers ==
    /\ args \in [prices_wide : UNION {MoverTables(n) : n \in 0..MaxMoverRows},
                 valid_tickers : MoverTickers, lookback_bars : MoverLookbacks]
    /\ ret = <<>>
    /\ prices_wide = Unused /\ baskets = Unused /\ settings = Unused
    /\ failing = Unused /\ view = Unused
    /\ session_state = Unused /\ now = 0

\* scan_baskets: logret = log_returns(prices_wide), then the top movers of
\* one basket
TopMovers ==
    /\ ret = <<>>
    /\ ret' = <<top_movers_of(log_returns(args.prices_wide), args.valid_tickers,
                              args.lookback_bars)>>
    /\ UNCHANGED <<scanInputs, session, view, args>>

NextMovers == TopMovers

SpecMovers == InitMovers /\ [][NextMovers]_vars

\* the sum of the absolute log returns of column t over the most recent
\* min(lookback_bars, available) bars, read off the prices
AbsMove(t) ==
    LET p == args.prices_wide.data[t]
        n == Len(p)
        from == IF n >= args.lookback_bars THEN n - args.lookback_bars + 1 ELSE 1
    IN  Sum(LAMBDA i :
                IF i < from \/ i = 1 \/ isna(p[i]) \/ isna(p[i - 1]) THEN 0
                ELSE IF Val(p[i]) < Val(p[i - 1]) THEN Val(p[i - 1]) - Val(p[i])
                ELSE Val(p[i]) - Val(p[i - 1]),
            n)

\* C11: for a basket with at least 2 valid tickers, top_movers names
\* min(3, n) distinct valid tickers of the basket, those with the largest sum
\* of absolute log returns over the most recent min(lookback_bars,
\* available) bars, in non-increasing order of that sum; it is the empty
\* string when the return table has no bar.
C11_TopMovers ==
    ret # <<>> =>
        LET tickers == args.valid_tickers
            n == Len(tickers)
            m == IF n < 3 THEN n ELSE 3
        IN  IF n_rows(args.prices_wide) = 0 THEN Val(ret) = <<>>
            ELSE \E sel \in [1..m -> 1..n] :
                    /\ \A i, j \in 1..m : i # j => sel[i] # sel[j]
                    /\ Val(ret) = join([i \in 1..m |-> tickers[sel[i]]])
                    /\ \A i \in 1..(m - 1) :
                          AbsMove(tickers[sel[i]]) >= AbsMove(tickers[sel[i + 1]])
                    /\ \A j \in 1..n :
                          (\A i \in 1..m : sel[i] # j) =>
                              AbsMove(tickers[j]) <= AbsMove(tickers[sel[m]])

\* C11 witness: of four tickers B alone moved at the latest bar, downwards;
\* A moved only before the lookback of one bar: B leads, then the first two
\* of the others in the order of the basket
C11_Witness ==
    /\ ret # <<>>
    /\ args.valid_tickers = <<ColD, ColC, ColA, ColB>>
    /\ args.lookback_bars = 1
    /\ n_rows(args.prices_wide) = 3
    /\ args.prices_wide.data[ColA] = <<Some(0), Some(1), Some(1)>>
    /\ args.prices_wide.data[ColB] = <<Some(0), Some(1), Some(0)>>
    /\ Val(ret) = join(<<ColB, ColD, ColC>>)

-----------------------------------------------------------------------------
(* Specification SpecMetrics: basket_return, rolling_corr and              *)
(* pair_corr_latest applied to the return tables of the price tables, for  *)
(* requests that name present and absent columns.                          *)

ColE == <<"E">> \o USDT_PERP

ReturnTables == {log_returns(t) : t \in Tables}

\* the tickers requested; ColD and ColE are columns of no table
MetricRequests ==
    { <<ColA, ColB>>, <<ColC, ColA, ColB>>, <<ColA, ColD>>, <<ColD, ColE>>,
      <<ColD, ColB, ColE>> }

MetricWindows == {1, 2, 3}

InitMetrics ==
    /\ args \in [logret : ReturnTables, tickers : MetricRequests, window : MetricWindows]
    /\ ret = <<>>
    /\ prices_wide = Unused /\ baskets = Unused /\ settings = Unused
    /\ failing = Unused /\ view = Unused
    /\ session_state = Unused /\ now = 0

CallBasketReturn ==
    /\ ret = <<>>
    /\ ret' = <<[by |-> "basket_return", out |-> basket_return(args.logret, args.tickers)]>>
    /\ UNCHANGED <<scanInputs, session, view, args>>

CallRollingCorr ==
    /\ ret = <<>>
    /\ ret' = <<[by |-> "rolling_corr",
                 out |-> rolling_corr(args.logret, args.tickers[1], args.tickers[2],
                                      args.window)]>>
    /\ UNCHANGED <<scanInputs, session, view, args>>

CallPairCorrLatest ==
    /\ ret = <<>>
    /\ ret' = <<[by |-> "pair_corr_latest",
                 out |-> pair_corr_latest(args.logret, args.tickers[1], args.tickers[2],
                                          args.window)]>>
    /\ UNCHANGED <<scanInputs, session, view, args>>

NextMetrics == CallBasketReturn \/ CallRollingCorr \/ CallPairCorrLatest

SpecMetrics == InitMetrics /\ [][NextMetrics]_vars

\* the columns the call was asked for
Requested ==
    IF Val(ret).by = "basket_return" THEN args.tickers ELSE SubSeq(args.tickers, 1, 2)

\* those of them that are no column of the return table
Absent ==
    SelectSeq(Requested, LAMBDA t :
        \A i \in 1..Len(args.logret.columns) : args.logret.columns[i] # t)

\* C12: basket_return, rolling_corr and pair_corr_latest fail with an error
\* naming the missing columns whenever a requested ticker is absent from the
\* return table; basket_return does not raise when all requested tickers are
\* present, also when only 2 are requested, and then returns, bar by bar,
\* the mean of the defined returns of exactly the named columns.
C12_MissingColumns ==
    ret # <<>> =>
        LET out == Val(ret).out
        IN  /\ Len(Absent) # 0 =>
                  /\ ~out.ok
                  /\ out.error = "ValueError"
                  /\ out.missing = Absent
            /\ (Val(ret).by = "basket_return" /\ Len(Absent) = 0) =>
                  /\ out.ok
                  /\ Len(Val(out.value)) = Len(args.logret.index)
                  /\ \A i \in 1..Len(args.logret.index) :
                        LET cell(k) == args.logret.data[Requested[k]][i]
                            count == Cardinality({k \in 1..Len(Requested) : ~isna(cell(k))})
                            total == Sum(LAMBDA k : IF isna(cell(k)) THEN 0 ELSE Val(cell(k)).p,
                                         Len(Requested))
                            mean == Val(out.value)[i]
                        IN  IF count = 0 THEN isna(mean)
                            ELSE /\ ~isna(mean)
                                 /\ Val(mean).q = 0 /\ Val(mean).d > 0
                                 /\ Val(mean).p * count = total * Val(mean).d

\* C12 witness: basket_return was asked for D, B and E over a table that has
\* B only of them, and failed naming D and E
C12_Witness ==
    /\ ret # <<>>
    /\ Val(ret).by = "basket_return"
    /\ args.tickers = <<ColD, ColB, ColE>>
    /\ Len(args.logret.index) >= 2
    /\ ~Val(ret).out.ok
    /\ Val(ret).out.missing = <<ColD, ColE>>

\* C13: pair_corr_latest returns the most recent value of the rolling
\* correlation of the two named columns; over a return table of zero rows
\* that has both columns it returns undefined instead of raising, and too
\* few observations give an undefined value, never an exception.
C13_PairCorrLatest ==
    (ret # <<>> /\ Val(ret).by = "pair_corr_latest" /\ Len(Absent) = 0) =>
        LET out == Val(ret).out
            series == Val(rolling_corr(args.logret, args.tickers[1], args.tickers[2],
                                       args.window).value)
        IN  /\ out.ok
            /\ IF Len(series) = 0 THEN isna(Val(out.value))
               ELSE Val(out.value) = series[Len(series)]

-----------------------------------------------------------------------------
(* data/ccxt_data.py: get_data_health *)

None == <<>>

\* prices_wide[col].isna().sum()
isna_sum(table, col) == Cardinality({i \in 1..n_rows(table) : isna(table.data[col][i])})

\* prices_wide.isna().sum().sum()
isna_sum_sum(table) == Sum(LAMBDA k : isna_sum(table, table.columns[k]), Len(table.columns))

\* index.min() and index.max()
index_min(index) == CHOOSE t \in {index[i] : i \in 1..Len(index)} :
                        \A i \in 1..Len(index) : t <= index[i]

index_max(index) == CHOOSE t \in {index[i] : i \in 1..Len(index)} :
                        \A i \in 1..Len(index) : t >= index[i]

\* the (col, missing_pct) tuples, in the order of the columns
per_symbol_missing(table) ==
    [k \in 1..Len(table.columns) |->
        [col |-> table.columns[k],
         missing_pct |-> Rat(isna_sum(table, table.columns[k]) * 100, n_rows(table))]]

\* a faulty variant: reverse=True is forgotten, the lowest percentages lead
sort_top10_ascending(entries) ==
    SubSeq(SortBy(entries, LAMBDA x, y : Lt(x.missing_pct, y.missing_pct)),
           1, IF Len(entries) < 10 THEN Len(entries) ELSE 10)

\* per_symbol_missing.sort(key=lambda x: x[1], reverse=True), then [:10]
sort_top10(entries) ==
    SubSeq(SortBy(entries, LAMBDA x, y : Gt(x.missing_pct, y.missing_pct)),
           1, IF Len(entries) < 10 THEN Len(entries) ELSE 10)

\* a faulty variant: n_rows is taken from prices_wide.size, the number of
\* cells
get_data_health_size_as_rows(table) ==
    IF empty(table)
    THEN [n_rows |-> 0, n_cols |-> 0, start_ts |-> None, end_ts |-> None,
          overall_missing_pct |-> Int2R(0), per_symbol_missing_top10 |-> <<>>]
    ELSE [n_rows |-> n_rows(table) * Len(table.columns),
          n_cols |-> Len(table.columns),
          start_ts |-> Some(index_min(table.index)),
          end_ts |-> Some(index_max(table.index)),
          overall_missing_pct |->
              Rat(isna_sum_sum(table) * 100, n_rows(table) * Len(table.columns)),
          per_symbol_missing_top10 |-> sort_top10(per_symbol_missing(table))]

\* a faulty variant: only a table without rows is taken as empty, and its
\* columns are still counted
get_data_health_by_rows(table) ==
    IF n_rows(table) = 0
    THEN [n_rows |-> 0, n_cols |-> Len(table.columns), start_ts |-> None,
          end_ts |-> None, overall_missing_pct |-> Int2R(0),
          per_symbol_missing_top10 |-> <<>>]
    ELSE [n_rows |-> n_rows(table),
          n_cols |-> Len(table.columns),
          start_ts |-> Some(index_min(table.index)),
          end_ts |-> Some(index_max(table.index)),
          overall_missing_pct |->
              Rat(isna_sum_sum(table) * 100, n_rows(table) * Len(table.columns)),
          per_symbol_missing_top10 |-> sort_top10(per_symbol_missing(table))]

get_data_health(table) ==
    IF empty(table)
    THEN [n_rows |-> 0, n_cols |-> 0, start_ts |-> None, end_ts |-> None,
          overall_missing_pct |-> Int2R(0), per_symbol_missing_top10 |-> <<>>]
    ELSE [n_rows |-> n_rows(table),
          n_cols |-> Len(table.columns),
          start_ts |-> Some(index_min(table.index)),
          end_ts |-> Some(index_max(table.index)),
          overall_missing_pct |->
              Rat(isna_sum_sum(table) * 100, n_rows(table) * Len(table.columns)),
          per_symbol_missing_top10 |-> sort_top10(per_symbol_missing(table))]

-----------------------------------------------------------------------------
(* Specification SpecHealth: get_data_health applied to price tables of up *)
(* to MaxHealthCols columns and MaxHealthRows bars, empty ones included.   *)

Letters == <<"A", "B", "C", "D", "E", "F", "G", "H", "I", "J", "K", "L", "M">>

HealthColumns(c) == [k \in 1..c |-> <<Letters[k]>> \o USDT_PERP]

\* a column of n bars whose first m are missing
LateColumn(n, m) == [i \in 1..n |-> IF i <= m THEN NaN ELSE Some(0)]

\* the table of c columns and n bars whose column k misses its first
\* gaps[k] bars
HealthTable(c, n, gaps) ==
    [index |-> HourlyIndex(n), columns |-> HealthColumns(c),
     data |-> [col \in {HealthColumns(c)[k] : k \in 1..c} |->
                  LateColumn(n, gaps[CHOOSE k \in 1..c : HealthColumns(c)[k] = col])]]

\* the missing bars per column: a fixed pattern on the leading columns, every
\* combination on the last four
GapChoices(c, n) ==
    {[k \in 1..c |-> IF k + 4 > c THEN free[k + 4 - c] ELSE k % (n + 1)] :
        free \in [1..4 -> 0..n]}

HealthColumnCounts == {0, 2, 5, MaxHealthCols}

HealthTables ==
    UNION {{HealthTable(c, n, gaps) : gaps \in GapChoices(c, n)} :
              c \in HealthColumnCounts, n \in 0..MaxHealthRows}

InitHealth ==
    /\ args \in [prices_wide : HealthTables]
    /\ ret = <<>>
    /\ prices_wide = Unused /\ baskets = Unused /\ settings = Unused
    /\ failing = Unused /\ view = Unused
    /\ session_state = Unused /\ now = 0

GetDataHealth ==
    /\ ret = <<>>
    /\ ret' = <<get_data_health(args.prices_wide)>>
    /\ UNCHANGED <<scanInputs, session, view, args>>

NextHealth == GetDataHealth

SpecHealth == InitHealth /\ [][NextHealth]_vars

\* the number of missing cells of column k of the table
MissingCells(k) ==
    LET t == args.prices_wide
    IN  Cardinality({i \in 1..Len(t.index) : t.data[t.columns[k]][i] = NaN})

\* C14: get_data_health never fails, and on an empty price table (no row or
\* no column) it returns n_rows = 0, n_cols = 0, start_ts and end_ts absent,
\* overall_missing_pct = 0.0 and per_symbol_missing_top10 = [].
C14_EmptyHealth ==
    (ret # <<>> /\ (Len(args.prices_wide.index) = 0 \/ Len(args.prices_wide.columns) = 0)) =>
        /\ Val(ret).n_rows = 0
        /\ Val(ret).n_cols = 0
        /\ Val(ret).start_ts = None
        /\ Val(ret).end_ts = None
        /\ Val(ret).overall_missing_pct = Int2R(0)
        /\ Val(ret).per_symbol_missing_top10 = <<>>

\* C14 witness: a table with columns and no bar was given
C14_Witness ==
    /\ ret # <<>>
    /\ Len(args.prices_wide.index) = 0
    /\ Len(args.prices_wide.columns) = 5
    /\ Val(ret).n_cols = 0

\* C15: on a non-empty price table overall_missing_pct is missing cells /
\* total cells * 100, a value in 0..100, and per_symbol_missing_top10 holds
\* min(10, n_cols) (column, percentage) entries, each column at most once,
\* each with the column's own missing percentage, in non-increasing order of
\* percentage, and no column left out has a higher percentage than a listed
\* one.
C15_MissingPercentages ==
    (ret # <<>> /\ Len(args.prices_wide.index) # 0 /\ Len(args.prices_wide.columns) # 0) =>
        LET t == args.prices_wide
            c == Len(t.columns)
            n == Len(t.index)
            pct == Val(ret).overall_missing_pct
            top == Val(ret).per_symbol_missing_top10
            at(i) == CHOOSE k \in 1..c : t.columns[k] = top[i].col
        IN  /\ pct.q = 0 /\ pct.d > 0
            /\ pct.p * n * c = 100 * pct.d * Sum(MissingCells, c)
            /\ 0 <= pct.p /\ pct.p <= 100 * pct.d
            /\ Len(top) = (IF c < 10 THEN c ELSE 10)
            /\ \A i \in 1..Len(top) :
                  /\ \E k \in 1..c : t.columns[k] = top[i].col
                  /\ top[i].missing_pct.q = 0 /\ top[i].missing_pct.d > 0
                  /\ top[i].missing_pct.p * n = 100 * top[i].missing_pct.d * MissingCells(at(i))
            /\ \A i, j \in 1..Len(top) : i # j => top[i].col # top[j].col
            /\ \A i, j \in 1..Len(top) : i < j => MissingCells(at(i)) >= MissingCells(at(j))
            /\ \A k \in 1..c :
                  (\A i \in 1..Len(top) : top[i].col # t.columns[k]) =>
                      \A i \in 1..Len(top) : MissingCells(k) <= MissingCells(at(i))

\* C15 witness: of 11 columns three miss every bar and lead the list in the
\* order of the columns; the last column misses none and is left out, while
\* an earlier column that misses none is listed
C15_Witness ==
    /\ ret # <<>>
    /\ Len(args.prices_wide.columns) = 11
    /\ Len(args.prices_wide.index) = 3
    /\ Len(Val(ret).per_symbol_missing_top10) = 10
    /\ MissingCells(10) = 3
    /\ Val(ret).per_symbol_missing_top10[1].col = args.prices_wide.columns[3]
    /\ Val(ret).per_symbol_missing_top10[1].missing_pct = Rat(300, 3)
    /\ Val(ret).per_symbol_missing_top10[3].col = args.prices_wide.columns[10]
    /\ MissingCells(11) = 0
    /\ \A i \in 1..10 :
          Val(ret).per_symbol_missing_top10[i].col # args.prices_wide.columns[11]
    /\ \E i \in 1..10 :
          Val(ret).per_symbol_missing_top10[i].col = args.prices_wide.columns[4]

-----------------------------------------------------------------------------
(* Specification SpecSeries: zscore, bollinger_bands and spread_vol        *)
(* applied to every series of at most MaxSeriesLen points, each undefined  *)
(* or in 0..MaxSeriesVal.                                                  *)

SeriesPoints == {NaN} \cup {Some(Int2R(x)) : x \in 0..MaxSeriesVal}

SeriesInputs == SeqsUpTo(SeriesPoints, MaxSeriesLen)

SeriesWindows == {1, 2, 3}

BandFactors == {0, 1, 2}

InitSeries ==
    /\ args \in [series : SeriesInputs, window : SeriesWindows, k : BandFactors]
    /\ ret = <<>>
    /\ prices_wide = Unused /\ baskets = Unused /\ settings = Unused
    /\ failing = Unused /\ view = Unused
    /\ session_state = Unused /\ now = 0

CallZscore ==
    /\ ret = <<>>
    /\ ret' = <<[by |-> "zscore", out |-> zscore(args.series, args.window)]>>
    /\ UNCHANGED <<scanInputs, session, view, args>>

CallBollingerBands ==
    /\ ret = <<>>
    /\ ret' = <<[by |-> "bollinger_bands",
                 out |-> bollinger_bands(args.series, args.window, args.k)]>>
    /\ UNCHANGED <<scanInputs, session, view, args>>

CallSpreadVol ==
    /\ ret = <<>>
    /\ ret' = <<[by |-> "spread_vol", out |-> spread_vol(args.series, args.window)]>>
    /\ UNCHANGED <<scanInputs, session, view, args>>

\* the price table of a pair whose spread is the series given: A holds the
\* series, B is flat
SpreadTable(series) ==
    [index |-> HourlyIndex(Len(series)), columns |-> <<ColA, ColB>>,
     data |-> (ColA :> [i \in 1..Len(series) |->
                           IF isna(series[i]) THEN NaN ELSE Some(Val(series[i]).p)])
                @@ (ColB :> FlatColumn(Len(series)))]

EntryLevels == {0, 1, 2}

\* the try block of scan_baskets for one pair: the z-scores, the latest
\* breach and whether the pair is counted
CallLatestBollBreach ==
    /\ ret = <<>>
    /\ \E z_entry \in EntryLevels :
        ret' = <<[by |-> "latest_boll_breach",
                  z_entry |-> z_entry,
                  z |-> zscore(spread_series(SpreadTable(args.series), ColA, ColB),
                               args.window),
                  breach |-> latest_boll_breach(
                                 spread_series(SpreadTable(args.series), ColA, ColB),
                                 bollinger_bands(
                                     spread_series(SpreadTable(args.series), ColA, ColB),
                                     args.window, args.k).upper,
                                 bollinger_bands(
                                     spread_series(SpreadTable(args.series), ColA, ColB),
                                     args.window, args.k).lower),
                  out |-> counts_as_opportunity(SpreadTable(args.series), ColA, ColB,
                              [z_window |-> args.window, analytics_window |-> args.window,
                               boll_k |-> args.k, z_entry |-> z_entry])]>>
    /\ UNCHANGED <<scanInputs, session, view, args>>

\* the row of the pair (A, B) as scan_pairs_in_basket and as the Pair
\* Explorer compute it
pair_rows(table, st) ==
    [scanner |-> scan_pair_row(table, log_returns(table), ColA, ColB, st, {}),
     page |-> pair_explorer_row(table, log_returns(table), ColA, ColB, st, {})]

\* the try blocks of scan_pairs_in_basket and of the Pair Explorer for one
\* pair
CallPairRows ==
    /\ ret = <<>>
    /\ \E analytics_window \in SeriesWindows :
        ret' = <<[by |-> "pair_rows",
                  analytics_window |-> analytics_window,
                  rows |-> pair_rows(SpreadTable(args.series),
                               [z_window |-> args.window,
                                analytics_window |-> analytics_window,
                                boll_k |-> args.k, z_entry |-> 1])]>>
    /\ UNCHANGED <<scanInputs, session, view, args>>

NextSeries ==
    \/ CallZscore
    \/ CallBollingerBands
    \/ CallSpreadVol
    \/ CallLatestBollBreach
    \/ CallPairRows

SpecSeries == InitSeries /\ [][NextSeries]_vars

\* the value of point i of the series given
Point(i) == Val(args.series[i]).p

\* the window ending at i is complete: i >= window and no value is missing
WindowComplete(i) ==
    /\ i >= args.window
    /\ \A j \in (i - args.window + 1)..i : args.series[j] # NaN

\* sum and sum of squares of the window ending at i
WindowSum(i) == Sum(LAMBDA j : Point(i - args.window + j), args.window)

WindowSquares(i) ==
    Sum(LAMBDA j : Point(i - args.window + j) * Point(i - args.window + j), args.window)

\* window * (window - 1) * the sample variance of the window ending at i
WindowSpread(i) == args.window * WindowSquares(i) - WindowSum(i) * WindowSum(i)

\* C16: zscore(series, window) is undefined at each of the first window-1
\* positions, at every position whose window contains a missing value and
\* at every position whose rolling standard deviation is zero; it is never
\* infinite; at every other position z * rolling std = value - rolling mean
\* (undefined for window = 1, where the rolling std itself is undefined).
C16_Zscore ==
    (ret # <<>> /\ Val(ret).by = "zscore") =>
        LET z == Val(ret).out
            w == args.window
        IN  /\ Len(z) = Len(args.series)
            /\ \A i \in 1..Len(z) :
                  /\ ~isna(z[i]) => Val(z[i]).d > 0
                  /\ IF ~WindowComplete(i) \/ w = 1 THEN isna(z[i])
                     ELSE IF WindowSpread(i) = 0 THEN isna(z[i])
                     ELSE /\ ~isna(z[i])
                          /\ Val(z[i]).p = 0
                          /\ Sgn(Val(z[i]).q) = Sgn(w * Point(i) - WindowSum(i))
                          /\ Val(z[i]).q * Val(z[i]).q * Val(z[i]).r * WindowSpread(i) * w
                                = Val(z[i]).d * Val(z[i]).d * (w - 1)
                                    * (w * Point(i) - WindowSum(i)) * (w * Point(i) - WindowSum(i))

\* C16 witness: a window of three equal values gives an undefined z-score,
\* right after a window that gives a defined one
C16_Witness ==
    /\ ret # <<>> /\ Val(ret).by = "zscore"
    /\ args.window = 3
    /\ args.series = <<Some(Int2R(2)), Some(Int2R(1)), Some(Int2R(1)), Some(Int2R(1))>>
    /\ ~isna(Val(ret).out[3])
    /\ isna(Val(ret).out[4])

\* C17: for every series, window and k >= 0, bollinger_bands returns mid,
\* the rolling mean, upper = mid + k * rolling std and lower = mid - k *
\* rolling std; wherever all three are defined lower <= mid <= upper, and
\* with k = 0 the three coincide there.
C17_BollingerBands ==
    (ret # <<>> /\ Val(ret).by = "bollinger_bands") =>
        LET bands == Val(ret).out
            w == args.window
        IN  /\ Len(bands.mid) = Len(args.series)
            /\ Len(bands.upper) = Len(args.series)
            /\ Len(bands.lower) = Len(args.series)
            /\ \A i \in 1..Len(args.series) :
                  LET mid == bands.mid[i]
                      upper == bands.upper[i]
                      lower == bands.lower[i]
                  IN  /\ isna(mid) <=> ~WindowComplete(i)
                      /\ ~isna(mid) =>
                            /\ Val(mid).q = 0 /\ Val(mid).d > 0
                            /\ Val(mid).p * w = WindowSum(i) * Val(mid).d
                      /\ isna(upper) <=> (~WindowComplete(i) \/ w = 1)
                      /\ isna(lower) <=> isna(upper)
                      /\ ~isna(upper) =>
                            /\ Val(upper).d > 0 /\ Val(lower).d > 0
                            \* the rational parts are the mean
                            /\ Val(upper).p * w = WindowSum(i) * Val(upper).d
                            /\ Val(lower).p * w = WindowSum(i) * Val(lower).d
                            \* the radical parts are +k*std and -k*std
                            /\ Val(upper).q >= 0 /\ Val(lower).q <= 0
                            /\ Val(upper).q * Val(upper).q * Val(upper).r * w * (w - 1)
                                  = args.k * args.k * WindowSpread(i)
                                      * Val(upper).d * Val(upper).d
                            /\ Val(lower).q * Val(lower).q * Val(lower).r * w * (w - 1)
                                  = args.k * args.k * WindowSpread(i)
                                      * Val(lower).d * Val(lower).d
                            /\ Ge(Val(upper), Val(mid)) /\ Ge(Val(mid), Val(lower))
                            /\ args.k = 0 =>
                                  Eq(Val(upper), Val(mid)) /\ Eq(Val(lower), Val(mid))

\* C17 witness: with k = 2 a window of unequal values has its upper band
\* strictly above and its lower band strictly below the mean
C17_Witness ==
    /\ ret # <<>> /\ Val(ret).by = "bollinger_bands"
    /\ args.k = 2 /\ args.window = 2
    /\ args.series = <<Some(Int2R(0)), Some(Int2R(2)), NaN, Some(Int2R(1))>>
    /\ Gt(Val(Val(ret).out.upper[2]), Val(Val(ret).out.mid[2]))
    /\ Lt(Val(Val(ret).out.lower[2]), Val(Val(ret).out.mid[2]))
    /\ isna(Val(ret).out.upper[4])

\* the defined first differences of the series given, oldest first
DefinedDiffs ==
    LET at == {i \in 2..Len(args.series) : args.series[i] # NaN /\ args.series[i - 1] # NaN}
        F[i \in 1..Len(args.series)] ==
            IF i = 1 THEN <<>>
            ELSE IF i \in at THEN Append(F[i - 1], Int2R(Point(i) - Point(i - 1)))
            ELSE F[i - 1]
    IN  IF Len(args.series) = 0 THEN <<>> ELSE F[Len(args.series)]

\* C18: spread_vol(series, window) is the sample standard deviation of the
\* first differences of series, over the last `window` defined differences
\* when at least `window` exist and over all of them otherwise; it is
\* undefined when the series has fewer than 2 points or fewer than 2 such
\* differences are selected, and it never raises.
C18_SpreadVol ==
    (ret # <<>> /\ Val(ret).by = "spread_vol") =>
        LET v == Val(ret).out
            diffs == DefinedDiffs
            n == Len(diffs)
            selected == IF n >= args.window THEN SubSeq(diffs, n - args.window + 1, n)
                        ELSE diffs
        IN  IF Len(args.series) < 2 \/ Len(selected) < 2 THEN isna(v)
            ELSE ~isna(v) /\ IsSampleStd(Val(v), selected)

\* C18 witness: three differences are defined, the window of two leaves the
\* oldest out, and the result differs from the deviation of all three
C18_Witness ==
    /\ ret # <<>> /\ Val(ret).by = "spread_vol"
    /\ args.window = 2
    /\ args.series = <<Some(Int2R(0)), Some(Int2R(2)), Some(Int2R(2)), Some(Int2R(2))>>
    /\ ~isna(Val(ret).out) /\ Eq(Val(Val(ret).out), Int2R(0))
    /\ ~Eq(Val(std(<<Some(Int2R(2)), Some(Int2R(0)), Some(Int2R(0))>>)), Int2R(0))

-----------------------------------------------------------------------------
(* The pair table: its order (C19) and its rows for failed pairs (C20),    *)
(* under specification SpecScan.                                           *)

\* |z| of a row of the pair table
abs_z(row) == Abs(Val(row.z))

\* C19: scan_pairs_in_basket returns the pair table with every computed row,
\* sorted by |z| descending, rows with an undefined z after all rows with a
\* defined one.
C19_PairTableSorted ==
    view.page = "scan_pairs" =>
        LET results == scan_pairs_results(prices_wide,
                           normalize_symbols(
                               (CHOOSE b \in {baskets[k] : k \in 1..Len(baskets)} :
                                   b.name = view.basket).tickers),
                           settings, failing)
            rows == Shown.rows
        IN  /\ ~Shown.raised
            /\ Len(rows) = Len(results)
            /\ \A k \in 1..Len(results) : \E i \in 1..Len(rows) : rows[i] = results[k]
            /\ \A i, j \in 1..Len(rows) :
                  i < j =>
                     /\ isna(rows[i].z) => isna(rows[j].z)
                     /\ (~isna(rows[i].z) /\ ~isna(rows[j].z)) =>
                           Ge(abs_z(rows[i]), abs_z(rows[j]))

\* the computation of the pair (a, b) raises in the pair table: a fault in
\* the pair's data, or no bar at all for the latest correlation
Failed(a, b) == {a, b} \in failing \/ n_rows(prices_wide) = 0

\* some pair of the list raises
SomePairFailed(pairs) ==
    \E k \in 1..Len(pairs) : Failed(pairs[k][1], pairs[k][2])

\* C20: the Pair Explorer shows exactly one row per enumerated pair,
\* n*(n-1)/2 rows for n valid tickers; the row of a pair whose computation
\* raises has z, bars_since_breach, corr and spread_vol undefined,
\* boll_breach and opportunity false and carries the error, and the row of
\* any other pair carries none.  In scan_pairs_in_basket, scan_baskets and
\* the Basket Explorer a pair that raises gets no row and is counted in no
\* opportunity count.
C20_FailedPairs ==
    /\ (view.page = "pair_explorer" /\ ~Shown.stopped) =>
          LET n == ValidCount(CHOOSE b \in {baskets[k] : k \in 1..Len(baskets)} :
                                  b.name = view.basket)
          IN  /\ Len(Shown.rows) * 2 = n * (n - 1)
              /\ Len(Shown.rows) = Len(Shown.pairs)
              /\ \A k \in 1..Len(Shown.rows) :
                    LET row == Shown.rows[k]
                    IN  /\ <<row.a, row.b>> = Shown.pairs[k]
                        /\ row.error <=> Failed(row.a, row.b)
                        /\ row.error =>
                              /\ isna(row.z) /\ isna(row.bars_since_breach)
                              /\ isna(row.corr) /\ isna(row.spread_vol)
                              /\ ~row.boll_breach /\ ~row.opportunity
    /\ (view.page = "scan_pairs" /\ SomePairFailed(Shown.pairs)) =>
          LET results == scan_pairs_results(prices_wide,
                             normalize_symbols(
                                 (CHOOSE b \in {baskets[k] : k \in 1..Len(baskets)} :
                                     b.name = view.basket).tickers),
                             settings, failing)
          IN  /\ \A i \in 1..Len(results) : ~Failed(results[i].a, results[i].b)
              /\ \A i \in 1..Len(Shown.rows) : ~Failed(Shown.rows[i].a, Shown.rows[i].b)
              /\ Len(results)
                    = Cardinality({k \in 1..Len(Shown.pairs) :
                                      ~Failed(Shown.pairs[k][1], Shown.pairs[k][2])})
    /\ view.page = "overview" =>
          \A i \in 1..Len(OverviewRows) :
              SomePairFailed(OverviewRows[i].tried) =>
                  /\ OverviewRows[i].opp_count
                        = Cardinality(Opportunities(OverviewRows[i].tried))
                  /\ OverviewRows[i].opp_count
                        <= Cardinality({k \in 1..Len(OverviewRows[i].tried) :
                              {OverviewRows[i].tried[k][1], OverviewRows[i].tried[k][2]}
                                  \notin failing})
    /\ (view.page = "basket_explorer" /\ ~Shown.stopped /\ SomePairFailed(Shown.pairs)) =>
          /\ \A i \in 1..Len(Shown.rows) : ~Failed(Shown.rows[i].a, Shown.rows[i].b)
          /\ Shown.opp_count = Cardinality(Opportunities(Shown.pairs))
          /\ Shown.opp_count
                <= Cardinality({k \in 1..Len(Shown.pairs) :
                      {Shown.pairs[k][1], Shown.pairs[k][2]} \notin failing})

\* C20 witness: the Pair Explorer shows the three pairs of basket "cab"; the
\* pair (A, C) raised and has its error row, between two computed rows
C20_Witness ==
    /\ view.page = "pair_explorer" /\ view.basket = "cab"
    /\ failing = {{ColA, ColC}}
    /\ Len(Shown.rows) = 3
    /\ ~Shown.rows[1].error /\ ~isna(Shown.rows[1].z)
    /\ Shown.rows[2] = error_row(ColA, ColC)
    /\ ~Shown.rows[3].error

-----------------------------------------------------------------------------
(* The counts of get_data_health (C30), under specification SpecHealth.    *)

\* C30, as claimed: for every price table n_rows is the table's number of
\* rows and n_cols its number of columns, also for a table with columns and
\* no row or with rows and no column.
C30_CountsOnEveryTable ==
    ret # <<>> =>
        /\ Val(ret).n_rows = Len(args.prices_wide.index)
        /\ Val(ret).n_cols = Len(args.prices_wide.columns)

\* C30, amended: for every price table with at least one row and one column
\* n_rows is the table's number of rows and n_cols its number of columns;
\* for a table with no row or no column both are reported as 0.
C30_RowAndColumnCounts ==
    ret # <<>> =>
        IF Len(args.prices_wide.index) # 0 /\ Len(args.prices_wide.columns) # 0
        THEN /\ Val(ret).n_rows = Len(args.prices_wide.index)
             /\ Val(ret).n_cols = Len(args.prices_wide.columns)
        ELSE Val(ret).n_rows = 0 /\ Val(ret).n_cols = 0

\* C30 witness: a table of 3 bars and 2 columns is reported as such
C30_Witness ==
    /\ ret # <<>>
    /\ Len(args.prices_wide.index) = 3 /\ Len(args.prices_wide.columns) = 2
    /\ Val(ret).n_rows = 3 /\ Val(ret).n_cols = 2

-----------------------------------------------------------------------------
(* Specification SpecSymbols: the raw tickers of the universe are          *)
(* normalised by app.py, again by fetch_ohlcv_close_wide, and once by      *)
(* scan_baskets.                                                           *)

\* the parts raw symbols are built from: a base, a quote, blanks around
SymbolBases ==
    { <<>>, <<"A">>, <<"a", " ">>, <<"E", "T", "H">>, <<"B", "C", "H">>,
      <<"e", "t", "h">>, <<"U", "S", "D">>, <<"B", "T", "C">> }

SymbolQuotes ==
    { <<>>, <<"U", "S", "D">>, <<"u", "s", "d">>, <<"U", "S", "D", "T">>,
      <<"B", "T", "C">>, <<"b", "t", "c">>, <<"/", "U", "S", "D", "T">>,
      <<"/", "u", "s", "d", "t">>, USDT_PERP, <<"/", "B", "T", "C">>,
      <<"U", "S", "D", "B", "T", "C">>, <<"/">> }

RawSymbols ==
    {lead \o base \o quote \o trail :
        lead \in {<<>>, <<" ">>}, base \in SymbolBases, quote \in SymbolQuotes,
        trail \in {<<>>, <<" ">>}}

ETHUSD == <<"E", "T", "H", "U", "S", "D">>

BCHBTC == <<"B", "C", "H", "B", "T", "C">>

\* all_tickers: the members of the baskets, one after the other
TickerLists ==
    {<<x>> : x \in RawSymbols}
        \cup { <<ETHUSD, BCHBTC, ETHUSD>>, <<BCHBTC, <<"e", "t", "h", "/", "u", "s", "d", "t">>, AUSD>> }

\* sorted(list(set(all_tickers)))
unique_tickers(all_tickers) ==
    LET F[k \in 0..Len(all_tickers)] ==
            IF k = 0 THEN <<>>
            ELSE IF \E j \in 1..(k - 1) : all_tickers[j] = all_tickers[k] THEN F[k - 1]
            ELSE Append(F[k - 1], all_tickers[k])
    IN  sorted(F[Len(all_tickers)])

InitSymbols ==
    /\ args \in [all_tickers : TickerLists]
    /\ ret = <<>>
    /\ prices_wide = Unused /\ baskets = Unused /\ settings = Unused
    /\ failing = Unused /\ view = Unused
    /\ session_state = Unused /\ now = 0

\* app.py: symbols = normalize_symbols(unique_tickers)
AppNormalize ==
    /\ ret = <<>>
    /\ ret' = <<[by |-> "app", out |-> normalize_symbols(unique_tickers(args.all_tickers))]>>
    /\ UNCHANGED <<scanInputs, session, view, args>>

\* fetch_ohlcv_close_wide(symbols): normalized_symbols, the column names
FetchNormalize ==
    /\ Len(ret) = 1
    /\ ret' = Append(ret, [by |-> "fetch", out |-> normalize_symbols(ret[1].out)])
    /\ UNCHANGED <<scanInputs, session, view, args>>

\* scan_baskets: normalized_tickers of the basket's raw tickers
ScanNormalize ==
    /\ Len(ret) = 2
    /\ ret' = Append(ret, [by |-> "scan", out |-> normalize_symbols(args.all_tickers)])
    /\ UNCHANGED <<scanInputs, session, view, args>>

NextSymbols == AppNormalize \/ FetchNormalize \/ ScanNormalize

SpecSymbols == InitSymbols /\ [][NextSymbols]_vars

\* s trimmed and upper-cased, written without the operators of the model
IsTrimmedUpper(out, raw) ==
    \E lead, trail \in 0..Len(raw) :
        /\ lead + trail <= Len(raw)
        /\ Len(out) = Len(raw) - lead - trail
        /\ \A i \in 1..lead : raw[i] = " "
        /\ \A i \in (Len(raw) - trail + 1)..Len(raw) : raw[i] = " "
        /\ Len(out) > 0 => (raw[lead + 1] # " " /\ raw[Len(raw) - trail] # " ")
        /\ \A i \in 1..Len(out) :
              /\ out[i] \notin {"a", "b", "c", "d", "e", "h", "s", "t", "u"}
              /\ out[i] = raw[lead + i] \/ ord(out[i]) + 32 = ord(raw[lead + i])

\* C25: to_ccxt_symbol is idempotent: the names fetch_ohlcv_close_wide gets
\* by normalising the names app.py normalised are those names, and they are
\* the names scan_baskets gets by normalising the raw tickers once; ETHUSD
\* gives ETH/USDT:USDT, BCHBTC gives BCH/BTC, and a raw symbol with a "/" is
\* only trimmed and upper-cased.
C25_NormalizeIdempotent ==
    /\ Len(ret) >= 2 => ret[2].out = ret[1].out
    /\ Len(ret) = 3 =>
          /\ {ret[3].out[i] : i \in 1..Len(ret[3].out)}
                = {ret[2].out[i] : i \in 1..Len(ret[2].out)}
          /\ Len(ret[3].out) = Len(args.all_tickers)
          /\ \A i \in 1..Len(args.all_tickers) :
                /\ args.all_tickers[i] = ETHUSD
                      => ret[3].out[i] = <<"E", "T", "H">> \o USDT_PERP
                /\ args.all_tickers[i] = BCHBTC
                      => ret[3].out[i] = <<"B", "C", "H", "/", "B", "T", "C">>
                /\ (\E j \in 1..Len(args.all_tickers[i]) : args.all_tickers[i][j] = "/")
                      => IsTrimmedUpper(ret[3].out[i], args.all_tickers[i])

\* C25 witness: " ethusd" was normalised to ETH/USDT:USDT by app.py, and
\* fetch_ohlcv_close_wide normalised that name again
C25_Witness ==
    /\ Len(ret) = 2
    /\ args.all_tickers = << <<" ", "e", "t", "h", "U", "S", "D">> >>
    /\ ret[1].out = << <<"E", "T", "H">> \o USDT_PERP >>
    /\ ret[2].by = "fetch"

-----------------------------------------------------------------------------
(* The latest breach and the latest z-score (C28), under specification     *)
(* SpecSeries.                                                             *)

\* C28: for every spread, window and k >= 0 the latest Bollinger breach flag
\* is true iff the latest z-score is defined and |z| > k, that is iff the
\* latest window is complete, its deviation is not zero and the latest
\* value is more than k deviations from its mean; a pair is counted as an
\* opportunity iff its latest z is defined, |z| >= z_entry and |z| > k.
C28_BreachIffZBeyondK ==
    (ret # <<>> /\ Val(ret).by = "latest_boll_breach") =>
        LET z == Val(ret).z
            n == Len(args.series)
            w == args.window
            defined == n # 0 /\ ~isna(z[n])
        IN  /\ Len(z) = n
            /\ Val(ret).breach <=> (defined /\ Gt(Abs(Val(z[n])), Int2R(args.k)))
            /\ Val(ret).breach <=>
                  /\ n # 0 /\ WindowComplete(n) /\ w >= 2 /\ WindowSpread(n) # 0
                  /\ (w * Point(n) - WindowSum(n)) * (w * Point(n) - WindowSum(n)) * (w - 1)
                        > args.k * args.k * WindowSpread(n) * w
            /\ ~defined => ~Val(ret).breach
            /\ Val(ret).out <=>
                  /\ defined
                  /\ Ge(Abs(Val(z[n])), Int2R(Val(ret).z_entry))
                  /\ Gt(Abs(Val(z[n])), Int2R(args.k))

\* C28 witness: the latest value lies below the lower band, |z| exceeds
\* k = 1 and z_entry = 1, and the pair is counted
C28_Witness ==
    /\ ret # <<>> /\ Val(ret).by = "latest_boll_breach"
    /\ args.k = 1 /\ args.window = 3 /\ Val(ret).z_entry = 1
    /\ args.series = <<Some(Int2R(2)), Some(Int2R(2)), Some(Int2R(2)), Some(Int2R(0))>>
    /\ Lt(Val(Val(ret).z[4]), Int2R(0))
    /\ Val(ret).breach
    /\ Val(ret).out

-----------------------------------------------------------------------------
(* The rows of a pair (C29, C23), under specification SpecSeries.          *)

\* the value at bar i lies outside the bands of the window ending at i
Breached(i) ==
    /\ WindowComplete(i) /\ args.window >= 2
    /\ (args.window * Point(i) - WindowSum(i)) * (args.window * Point(i) - WindowSum(i))
          * (args.window - 1)
        > args.k * args.k * WindowSpread(i) * args.window

\* the bars since the latest breach: 0 at a breach, undefined without one
BarsSinceBreach ==
    LET at == {i \in 1..Len(args.series) : Breached(i)}
    IN  IF at = {} THEN NaN
        ELSE Some(Len(args.series) - (CHOOSE i \in at : \A j \in at : j <= i))

\* the two rows of the pair, when both were computed
ScannerRow == Val(Val(ret).rows.scanner.value)

PageRow == Val(Val(ret).rows.page.value)

RowsComputed ==
    /\ ret # <<>> /\ Val(ret).by = "pair_rows"
    /\ Val(ret).rows.scanner.ok /\ Val(ret).rows.page.ok

\* C29: in every successfully computed pair row bars_since_breach = 0 iff
\* boll_breach is true, and a defined bars_since_breach is the number of bars
\* since the latest breach, between 0 and (number of rows - 1); the last
\* element of the per-bar breach series (the scanner's flag) equals
\* latest_boll_breach (the Pair Explorer's flag).
C29_BarsSinceBreachAndFlag ==
    /\ (ret # <<>> /\ Val(ret).by = "pair_rows") =>
          /\ Val(ret).rows.scanner.ok <=> Len(args.series) # 0
          /\ Val(ret).rows.page.ok <=> Len(args.series) # 0
    /\ RowsComputed =>
          /\ ScannerRow.boll_breach <=> (ScannerRow.bars_since_breach = Some(0))
          /\ PageRow.boll_breach <=> (PageRow.bars_since_breach = Some(0))
          /\ ScannerRow.bars_since_breach = BarsSinceBreach
          /\ PageRow.bars_since_breach = BarsSinceBreach
          /\ ~isna(PageRow.bars_since_breach) =>
                Val(PageRow.bars_since_breach) \in 0..(Len(args.series) - 1)
          /\ ScannerRow.boll_breach = PageRow.boll_breach
          /\ PageRow.boll_breach <=> Breached(Len(args.series))

\* C29 witness: the band was breached two bars before the latest bar and not
\* since
C29_Witness ==
    /\ RowsComputed
    /\ args.window = 2 /\ args.k = 0
    /\ args.series = <<Some(Int2R(0)), Some(Int2R(1)), Some(Int2R(1)), Some(Int2R(1))>>
    /\ ~PageRow.boll_breach /\ ~ScannerRow.boll_breach
    /\ PageRow.bars_since_breach = Some(2)
    /\ ScannerRow.bars_since_breach = Some(2)

\* the defined values of a series, as rationals
DefinedValues(series) ==
    LET F[i \in 0..Len(series)] ==
            IF i = 0 THEN <<>>
            ELSE IF isna(series[i]) THEN F[i - 1]
            ELSE Append(F[i - 1], Val(series[i]))
    IN  F[Len(series)]

\* the last w elements of xs, all of xs when it has fewer
LastOrAll(xs, w) == IF Len(xs) >= w THEN SubSeq(xs, Len(xs) - w + 1, Len(xs)) ELSE xs

-----------------------------------------------------------------------------
(* Specification SpecBaskets: scan_baskets over price tables that hold     *)
(* only some of the members of the baskets.                                *)

\* baskets whose members are, depending on the table, partly absent
MixedUniverse ==
    << [name |-> "dba", tickers |-> <<DUSD, BUSD, AUSD>>],
       [name |-> "acdb", tickers |-> <<AUSD, CUSD, DUSD, BUSD>>],
       [name |-> "cd", tickers |-> <<CUSD, DUSD>>] >>

\* the columns of the table, in the order the fetch left them
ColumnChoices == { <<ColA, ColB, ColC>>, <<ColB, ColA>>, <<ColC, ColD, ColA, ColB>> }

\* the tables of n bars with the columns given: the first two columns move,
\* the others are flat
PartialTables(columns, n) ==
    {[index |-> HourlyIndex(n), columns |-> columns,
      data |-> [col \in {columns[k] : k \in 1..Len(columns)} |->
                   IF col = columns[1] THEN c1
                   ELSE IF col = columns[2] THEN c2 ELSE FlatColumn(n)]] :
        c1 \in ListedColumns(n), c2 \in ListedColumns(n)}

InitBaskets ==
    /\ prices_wide \in UNION {PartialTables(columns, n) :
                                 columns \in ColumnChoices, n \in 0..MaxBasketRows}
    /\ baskets = MixedUniverse
    /\ settings = [z_window |-> 2, analytics_window |-> 2, boll_k |-> 0, z_entry |-> 0]
    /\ failing = {}
    /\ view = Unused /\ args = Unused
    /\ session_state = Unused /\ now = 0
    /\ ret = <<>>

\* scan_baskets(prices_wide, BASKETS, settings, lookback_bars=2)
ScanBaskets ==
    /\ ret = <<>>
    /\ ret' = <<scan_baskets(prices_wide, baskets, settings, 2, failing)>>
    /\ UNCHANGED <<scanInputs, session, view, args>>

NextBaskets == ScanBaskets

SpecBaskets == InitBaskets /\ [][NextBaskets]_vars

\* the members of a basket that are columns of the table, in basket order; a
\* member XUSD is the column X/USDT:USDT
PresentMembers(basket) ==
    SelectSeq([i \in 1..Len(basket.tickers) |-> <<basket.tickers[i][1]>> \o USDT_PERP],
              LAMBDA t : t \in {prices_wide.columns[k] : k \in 1..Len(prices_wide.columns)})

\* C24: scan_baskets takes as a basket's valid tickers exactly the
\* normalised members that are columns of the table, in basket order:
\* n_tickers is their number, the pairs it enumerates and tries are the
\* pairs of these tickers in that order, the basket volatility is that of
\* their returns, and top_movers names up to 3 of them and no other.
C24_ValidTickers ==
    ret # <<>> =>
        /\ Len(Val(ret).rows) = Len(baskets)
        /\ \A i \in 1..Len(Val(ret).rows) :
              LET row == Val(ret).rows[i]
                  present == PresentMembers(CHOOSE b \in {baskets[k] : k \in 1..Len(baskets)} :
                                                b.name = row.basket)
                  n == Len(present)
              IN  /\ row.n_tickers = n
                  /\ n >= 2 =>
                        /\ Len(row.pairs) * 2 = n * (n - 1)
                        /\ \A k \in 1..Len(row.pairs) :
                              \E x, y \in 1..n :
                                  x < y /\ row.pairs[k] = <<present[x], present[y]>>
                        /\ \A k, l \in 1..Len(row.pairs) : k # l => row.pairs[k] # row.pairs[l]
                        /\ row.pairs[1] = <<present[1], present[2]>>
                        /\ \A k \in 1..Len(row.tried) :
                              \E l \in 1..Len(row.pairs) : row.tried[k] = row.pairs[l]
                        /\ n_rows(prices_wide) >= settings.z_window => row.tried = row.pairs
                        /\ row.basket_vol
                              = basket_vol_of(log_returns(prices_wide), present, settings)
                        /\ \E m \in 0..3 : \E sel \in [1..m -> 1..n] :
                              /\ \A k, l \in 1..m : k # l => sel[k] # sel[l]
                              /\ row.top_movers = join([k \in 1..m |-> present[sel[k]]])
                              /\ n_rows(prices_wide) # 0 => m = (IF n < 3 THEN n ELSE 3)
                  /\ n < 2 => row.pairs = <<>> /\ row.tried = <<>> /\ row.top_movers = <<>>

\* C24 witness: the table has no column for D; basket "dba" is scanned with
\* its members B and A, in that order, and its volatility is defined
C24_Witness ==
    /\ ret # <<>>
    /\ prices_wide.columns = <<ColA, ColB, ColC>>
    /\ \E i \in 1..Len(Val(ret).rows) :
          /\ Val(ret).rows[i].basket = "dba"
          /\ Val(ret).rows[i].n_tickers = 2
          /\ Val(ret).rows[i].tried = << <<ColB, ColA>> >>
          /\ ~isna(Val(ret).rows[i].basket_vol)
          /\ Val(ret).rows[i].top_movers # <<>>

-----------------------------------------------------------------------------
(* Specification SpecView: the filtered view of the Pair Explorer.         *)

\* a faulty variant: a row without a correlation passes the correlation
\* filter
df_view_keeping_nan(df_all, only_opportunities, min_correlation, min_abs_z, sort_by) ==
    LET by_opportunity == IF only_opportunities
                          THEN SelectSeq(df_all, LAMBDA row : row.opportunity = TRUE)
                          ELSE df_all
        by_corr == SelectSeq(by_opportunity, LAMBDA row :
                       isna(row.corr) \/ Ge(Val(row.corr), min_correlation))
    IN  SelectSeq(by_corr, LAMBDA row :
            ~isna(row.z) /\ Ge(Abs(Val(row.z)), min_abs_z))

\* df_view: df_all through the three filters, then sorted; a comparison with
\* NaN is False, so its row is dropped
df_view_of(df_all, only_opportunities, min_correlation, min_abs_z, sort_by) ==
    LET by_opportunity == IF only_opportunities
                          THEN SelectSeq(df_all, LAMBDA row : row.opportunity = TRUE)
                          ELSE df_all
        by_corr == SelectSeq(by_opportunity, LAMBDA row :
                       ~isna(row.corr) /\ Ge(Val(row.corr), min_correlation))
        by_z == SelectSeq(by_corr, LAMBDA row :
                       ~isna(row.z) /\ Ge(Abs(Val(row.z)), min_abs_z))
    IN  IF sort_by = "|z| (desc)"
        THEN SortBy(by_z, LAMBDA x, y : Gt(Abs(Val(x.z)), Abs(Val(y.z))))
        ELSE SortBy(by_z, LAMBDA x, y : Gt(Val(x.corr), Val(y.corr)))

\* the page down to its table: nothing is filtered once the page has stopped
pair_explorer_view(page, only_opportunities, min_correlation, min_abs_z, sort_by) ==
    [stopped |-> page.stopped, df_all |-> page.rows,
     only_opportunities |-> only_opportunities,
     min_correlation |-> min_correlation, min_abs_z |-> min_abs_z,
     df_view |-> IF page.stopped THEN <<>>
                 ELSE df_view_of(page.rows, only_opportunities, min_correlation,
                                 min_abs_z, sort_by)]

\* positions of the two sliders and of the sort selector
MinCorrelations == {Int2R(0 - 1), Int2R(0), Int2R(1)}
MinAbsZs == {Int2R(0), Int2R(1)}
SortChoices == {"|z| (desc)", "Correlation (desc)"}

\* the parameter sets of the filtered page; under the first the pair A, B raises
ViewParameters ==
    { <<[z_window |-> 2, analytics_window |-> 2, boll_k |-> 0, z_entry |-> 0],
        {{ColA, ColB}}>>,
      <<[z_window |-> 3, analytics_window |-> 2, boll_k |-> 1, z_entry |-> 1], {}>> }

\* the tables of n bars for the filtered page: A and B as listed, C moving
\* up and down by turns
ViewTables(n) ==
    {[index |-> HourlyIndex(n), columns |-> <<ColA, ColB, ColC>>,
      data |-> (ColA :> ca) @@ (ColB :> cb) @@ (ColC :> [i \in 1..n |-> Some((i + 1) % 2)])] :
        ca \in ListedColumns(n), cb \in ListedColumns(n)}

InitView ==
    /\ prices_wide \in UNION {ViewTables(n) : n \in 0..MaxViewRows}
    /\ baskets = Universe
    /\ \E choice \in ViewParameters : settings = choice[1] /\ failing = choice[2]
    /\ view = NoView
    /\ args = Unused /\ ret = Unused
    /\ session_state = Unused /\ now = 0

\* the controls, then the table
RenderFiltered(basket_name, page) ==
    \E only_opportunities \in BOOLEAN, min_correlation \in MinCorrelations,
       min_abs_z \in MinAbsZs, sort_by \in SortChoices :
        view' = [page |-> "pair_explorer", basket |-> basket_name, lookback |-> 0,
                 out |-> <<pair_explorer_view(page, only_opportunities, min_correlation,
                                              min_abs_z, sort_by)>>]

\* pages/3_Pair_Explorer.py with its controls
RenderPairExplorerView ==
    /\ view.page = "none"
    /\ \E basket_name \in {"cab", "ad"} :
        RenderFiltered(basket_name,
                       pair_explorer(prices_wide, baskets, basket_name, settings, failing))
    /\ UNCHANGED <<scanInputs, session, args, ret>>

NextView ==
    \/ RenderPairExplorerView
    \/ Rerun

SpecView == InitView /\ [][NextView]_vars

\* the rows of a table, as a set
RowsOf(table) == {table[k] : k \in 1..Len(table)}

\* C22: a row of df_all is in the filtered view exactly if its correlation
\* is at least min_correlation, its |z| is at least min_abs_z, and it is an
\* opportunity or opportunities-only is off; so a row whose correlation or z
\* is undefined, and every row of a failed pair, is in no filtered view;
\* the view holds rows of df_all only, each once.
C22_FilteredView ==
    view.page = "pair_explorer" =>
        /\ \A row \in RowsOf(Shown.df_all) :
              row \in RowsOf(Shown.df_view)
                  <=> /\ ~isna(row.corr)
                      /\ ~Lt(Val(row.corr), Shown.min_correlation)
                      /\ ~isna(row.z)
                      /\ \/ ~Lt(Val(row.z), Shown.min_abs_z)
                         \/ ~Gt(Val(row.z), Rat(0 - Shown.min_abs_z.p, Shown.min_abs_z.d))
                      /\ (row.opportunity \/ ~Shown.only_opportunities)
        /\ \A row \in RowsOf(Shown.df_all) :
              (row.error \/ isna(row.corr) \/ isna(row.z))
                  => row \notin RowsOf(Shown.df_view)
        /\ RowsOf(Shown.df_view) \subseteq RowsOf(Shown.df_all)
        /\ Cardinality(RowsOf(Shown.df_view)) = Len(Shown.df_view)

\* C22 witness: with the filters at their defaults, the table has the row of
\* a failed pair and a computed row without a correlation; neither is in the
\* view, a third row is
C22_Witness ==
    /\ view.page = "pair_explorer"
    /\ ~Shown.only_opportunities
    /\ Shown.min_correlation = Int2R(0) /\ Shown.min_abs_z = Int2R(0)
    /\ \E row \in RowsOf(Shown.df_all) : row.error
    /\ \E row \in RowsOf(Shown.df_all) : ~row.error /\ isna(row.corr) /\ ~isna(row.z)
    /\ Shown.df_view # <<>>

-----------------------------------------------------------------------------
(* Specification SpecSession: app.py and the four pages over one           *)
(* st.session_state.                                                       *)

\* "key" in st.session_state
has(ss, key) == key \in DOMAIN ss

\* st.session_state.key = value
session_set(ss, key, value) ==
    [k \in DOMAIN ss \cup {key} |-> IF k = key THEN value ELSE ss[k]]

\* del st.session_state.key
session_del(ss, key) == [k \in DOMAIN ss \ {key} |-> ss[k]]

\* pd.Timedelta(days=d), in the seconds of the index
Timedelta_days(d) == d * 86400

\* trim_history: the rows from days_display days before the last bar on
trim_history(table, days_display) ==
    IF empty(table) THEN table
    ELSE LET start_date == index_max(table.index) - Timedelta_days(days_display)
             kept == SelectSeq([i \in 1..Len(table.index) |-> i],
                               LAMBDA i : table.index[i] >= start_date)
         IN  [index |-> [k \in 1..Len(kept) |-> table.index[kept[k]]],
              columns |-> table.columns,
              data |-> [col \in DOMAIN table.data |->
                           [k \in 1..Len(kept) |-> table.data[col][kept[k]]]]]

\* Settings(): the windows of the model, the display window of the code
AppSettings ==
    [z_window |-> 2, analytics_window |-> 2, boll_k |-> 0, z_entry |-> 0,
     history_days_display |-> 10]

\* the index of n bars whose first bar is 11 days older than the second (the
\* exchange returned no candles in between)
GappedIndex(n) == [i \in 1..n |-> IF i = 1 THEN 3600 ELSE (i * 3600) + Timedelta_days(11)]

\* the tables a successful fetch returns: at least one column and one bar;
\* the first column moves up and down by turns, the others are flat
FetchedTables(n) ==
    {[index |-> index, columns |-> columns,
      data |-> [col \in {columns[k] : k \in 1..Len(columns)} |->
                   IF col = columns[1] THEN [i \in 1..n |-> Some(i % 2)]
                   ELSE FlatColumn(n)]] :
        index \in {HourlyIndex(n), GappedIndex(n)},
        columns \in {<<ColA, ColB, ColC>>, <<ColB, ColA>>}}

\* fetch_ohlcv_close_wide returns a table or raises
FetchOutcomes == {Raised} \cup {Returned(t) : t \in FetchedTables(MaxFetchedRows)}

\* a faulty variant of app.py: the refresh time is stored before the fetch
app_run_stamping_first(ss, refresh_button, force_refresh, outcome, st, clock) ==
    LET should_refresh ==
            refresh_button \/ force_refresh \/ ~has(ss, "prices_wide_full")
    IN  IF should_refresh /\ ~outcome.ok
        THEN [session |-> session_set(ss, "last_refresh_ts", clock),
              stopped |-> TRUE, fetched |-> FALSE]
        ELSE IF should_refresh
        THEN [session |->
                 session_set(session_set(session_set(session_set(session_set(ss,
                     "prices_wide_full", Val(outcome.value)),
                     "prices_wide", trim_history(Val(outcome.value), st.history_days_display)),
                     "data_health", get_data_health(Val(outcome.value))),
                     "last_refresh_ts", clock),
                     "settings", st),
              stopped |-> FALSE, fetched |-> TRUE]
        ELSE [session |-> session_set(ss, "settings", st),
              stopped |-> FALSE, fetched |-> FALSE]

\* one run of app.py: the session state it leaves, whether it stopped on the
\* fetch's exception, whether it stored a fetch
app_run(ss, refresh_button, force_refresh, outcome, st, clock) ==
    LET should_refresh ==
            refresh_button \/ force_refresh \/ ~has(ss, "prices_wide_full")
    IN  IF should_refresh /\ ~outcome.ok
        THEN [session |-> ss, stopped |-> TRUE, fetched |-> FALSE]
        ELSE IF should_refresh
        THEN [session |->
                 session_set(session_set(session_set(session_set(session_set(ss,
                     "prices_wide_full", Val(outcome.value)),
                     "prices_wide", trim_history(Val(outcome.value), st.history_days_display)),
                     "data_health", get_data_health(Val(outcome.value))),
                     "last_refresh_ts", clock),
                     "settings", st),
              stopped |-> FALSE, fetched |-> TRUE]
        ELSE IF ~has(ss, "prices_wide")
        THEN [session |-> ss, stopped |-> TRUE, fetched |-> FALSE]
        ELSE [session |-> session_set(ss, "settings", st),
              stopped |-> FALSE, fetched |-> FALSE]

\* the guard at the head of every page
data_loaded(ss) == has(ss, "prices_wide") /\ has(ss, "settings")

\* a page that stops on "Data not loaded"
not_loaded(ss) == [session |-> ss, stopped |-> TRUE, computed |-> FALSE]

\* a page that ran past the guard
rendered(ss, stopped) == [session |-> ss, stopped |-> stopped, computed |-> TRUE]

\* Overview from the scan on: every choice of the basket selectbox, with
\* the button pressed or not
overview_select(ss, scan) ==
    IF scan.raised THEN {rendered(ss, TRUE)}
    ELSE IF scan.rows = <<>> THEN {rendered(ss, FALSE)}
    ELSE {rendered(ss, FALSE)} \cup
         {rendered(session_set(ss, "selected_basket", scan.rows[choice].basket), FALSE) :
             choice \in 1..Len(scan.rows)}

\* pages/1_Overview.py
overview_run(ss, universe, lookback_bars) ==
    IF ~data_loaded(ss) THEN {not_loaded(ss)}
    ELSE overview_select(session_set(ss, "z_entry_override", ss.settings.z_entry),
                         scan_baskets(ss.prices_wide, universe, ss.settings,
                                      lookback_bars, {}))

\* "Determine active basket" of the two explorers: the selected basket, or
\* with none a selectbox over all baskets
basket_selector(ss, universe) ==
    IF has(ss, "selected_basket")
        /\ ss.selected_basket \in {universe[k].name : k \in 1..Len(universe)}
    THEN {ss.selected_basket}
    ELSE {universe[k].name : k \in 1..Len(universe)}

\* the basket chosen in the selectbox is stored
with_active_basket(ss, universe, basket_name) ==
    IF has(ss, "selected_basket")
        /\ ss.selected_basket \in {universe[k].name : k \in 1..Len(universe)}
    THEN ss
    ELSE session_set(ss, "selected_basket", basket_name)

\* the button of an explorer: the pair picked and the page's basket are stored
with_pair(ss, basket_name, a, b) ==
    session_set(session_set(ss, "selected_pair", <<a, b>>), "selected_basket", basket_name)

\* the rows the pair selectbox of the Pair Explorer offers: the filtered
\* view, or df_all when the view is empty
source_df_of(df_all, df_view) == IF df_view = <<>> THEN df_all ELSE df_view

\* the pair selectbox and its button, pressed
pair_explorer_pressed(ss, basket_name, source_df) ==
    {rendered(with_pair(ss, basket_name, source_df[i].a, source_df[i].b), FALSE) :
        i \in 1..Len(source_df)}

\* Pair Explorer from its table on: every position of the opportunities
\* checkbox and of the pair selectbox, with the button pressed or not
pair_explorer_select(ss, basket_name, page) ==
    IF page.stopped THEN {rendered(ss, TRUE)}
    ELSE {rendered(ss, FALSE)} \cup
         UNION {pair_explorer_pressed(ss, basket_name,
                    source_df_of(page.rows,
                                 df_view_of(page.rows, only_opportunities, Int2R(0),
                                            Int2R(0), "|z| (desc)"))) :
                   only_opportunities \in BOOLEAN}

\* pages/3_Pair_Explorer.py
pair_explorer_run(ss, universe, basket_name) ==
    IF ~data_loaded(ss) THEN {not_loaded(ss)}
    ELSE pair_explorer_select(with_active_basket(ss, universe, basket_name), basket_name,
                              pair_explorer(ss.prices_wide, universe, basket_name,
                                            ss.settings, {}))

\* the rows the pair selectbox of the Basket Explorer offers
source_df_for_selection_of(rows, show_all) ==
    IF rows = <<>> THEN <<>>
    ELSE IF show_all THEN rows
    ELSE IF SelectSeq(rows, LAMBDA row : row.opportunity = TRUE) # <<>>
    THEN SelectSeq(rows, LAMBDA row : row.opportunity = TRUE)
    ELSE rows

\* Basket Explorer from its table on
basket_explorer_select(ss, basket_name, page) ==
    IF page.stopped THEN {rendered(ss, TRUE)}
    ELSE {rendered(ss, FALSE)} \cup
         UNION {pair_explorer_pressed(ss, basket_name,
                                      source_df_for_selection_of(page.rows, show_all)) :
                   show_all \in BOOLEAN}

\* pages/2_Basket_Explorer.py
basket_explorer_run(ss, universe, basket_name) ==
    IF ~data_loaded(ss) THEN {not_loaded(ss)}
    ELSE basket_explorer_select(with_active_basket(ss, universe, basket_name), basket_name,
                                basket_explorer(ss.prices_wide, universe, basket_name,
                                                ss.settings, {}))

\* Pair Deep Dive once it has its pair: the check on the columns, then the
\* clear button
deep_dive_show(ss, pair, clear) ==
    IF ~in_columns(pair[1], ss.prices_wide) \/ ~in_columns(pair[2], ss.prices_wide)
    THEN rendered(ss, TRUE)
    ELSE IF clear THEN rendered(session_del(ss, "selected_pair"), FALSE)
    ELSE rendered(ss, FALSE)

\* Pair Deep Dive without a selected pair: the basket chosen is stored, then
\* the pair chosen among its pairs
deep_dive_select(ss, pairs_list, clear) ==
    IF pairs_list = <<>> THEN {rendered(ss, TRUE)}
    ELSE {deep_dive_show(session_set(ss, "selected_pair", pairs_list[i]), pairs_list[i], clear) :
             i \in 1..Len(pairs_list)}

\* pages/4_Pair_Deep_Dive.py
pair_deep_dive_run(ss, universe, basket_choice, clear) ==
    IF ~data_loaded(ss) THEN {not_loaded(ss)}
    ELSE IF has(ss, "selected_pair") THEN {deep_dive_show(ss, ss.selected_pair, clear)}
    ELSE deep_dive_select(session_set(ss, "selected_basket", basket_choice),
                          combinations2(sorted(page_valid_tickers(ss.prices_wide, universe,
                                                                  basket_choice))),
                          clear)

InitSession ==
    /\ prices_wide = Unused /\ settings = Unused /\ failing = Unused
    /\ baskets = Universe
    /\ view = [page |-> "none", stopped |-> FALSE, fetched |-> FALSE, computed |-> FALSE]
    /\ args = Unused /\ ret = Unused
    /\ session_state = <<>> /\ now = 0

\* what a run of app.py leaves
AppRendered(run) ==
    /\ session_state' = run.session
    /\ view' = [page |-> "app", stopped |-> run.stopped, fetched |-> run.fetched,
                computed |-> FALSE]

\* streamlit run app.py, or a rerun of it
AppRun ==
    /\ now < MaxRuns
    /\ now' = now + 1
    /\ \E refresh_button \in BOOLEAN, force_refresh \in BOOLEAN, outcome \in FetchOutcomes :
          AppRendered(app_run(session_state, refresh_button, force_refresh, outcome,
                              AppSettings, now + 1))
    /\ UNCHANGED <<scanInputs, args, ret>>

\* what a run of a page leaves
PageRendered(page, run) ==
    /\ session_state' = run.session
    /\ view' = [page |-> page, stopped |-> run.stopped, fetched |-> FALSE,
                computed |-> run.computed]

OverviewRun ==
    /\ \E run \in overview_run(session_state, baskets, 2) : PageRendered("overview", run)
    /\ UNCHANGED <<scanInputs, now, args, ret>>

BasketExplorerRun ==
    /\ \E basket_name \in basket_selector(session_state, baskets) :
          \E run \in basket_explorer_run(session_state, baskets, basket_name) :
              PageRendered("basket_explorer", run)
    /\ UNCHANGED <<scanInputs, now, args, ret>>

PairExplorerRun ==
    /\ \E basket_name \in basket_selector(session_state, baskets) :
          \E run \in pair_explorer_run(session_state, baskets, basket_name) :
              PageRendered("pair_explorer", run)
    /\ UNCHANGED <<scanInputs, now, args, ret>>

PairDeepDiveRun ==
    /\ \E basket_choice \in BasketNames, clear \in BOOLEAN :
          \E run \in pair_deep_dive_run(session_state, baskets, basket_choice, clear) :
              PageRendered("pair_deep_dive", run)
    /\ UNCHANGED <<scanInputs, now, args, ret>>

NextSession ==
    \/ AppRun
    \/ OverviewRun
    \/ BasketExplorerRun
    \/ PairExplorerRun
    \/ PairDeepDiveRun

SpecSession == InitSession /\ [][NextSession]_vars

\* the keys a fetch stores
FetchKeys == {"prices_wide_full", "prices_wide", "data_health", "last_refresh_ts"}

\* the part of the session state under these keys
Fetched(ss) == [k \in FetchKeys \cap DOMAIN ss |-> ss[k]]

\* the keys of a fetch are all present or all absent, and the stored table,
\* health and time belong together; a page computes on loaded data only
SessionDataWhole ==
    /\ FetchKeys \cap DOMAIN session_state \in {{}, FetchKeys}
    /\ has(session_state, "prices_wide_full") =>
          /\ session_state.prices_wide_full \in FetchedTables(MaxFetchedRows)
          /\ session_state.prices_wide.columns = session_state.prices_wide_full.columns
          /\ \A i \in 1..Len(session_state.prices_wide_full.index) :
                LET t == session_state.prices_wide_full.index[i]
                    last == session_state.prices_wide_full.index[Len(session_state.prices_wide_full.index)]
                IN  (\E k \in 1..Len(session_state.prices_wide.index) :
                        session_state.prices_wide.index[k] = t)
                        <=> t + (10 * 86400) >= last
          /\ session_state.data_health.n_rows = Len(session_state.prices_wide_full.index)
          /\ session_state.data_health.end_ts
                = Some(session_state.prices_wide_full.index[Len(session_state.prices_wide_full.index)])
          /\ session_state.last_refresh_ts \in 1..now
    /\ view.computed => has(session_state, "prices_wide") /\ has(session_state, "settings")

\* a run whose fetch raised changed nothing; the keys of a fetch change only
\* in a run that stored a fetch, all at the time of that run
SessionDataStep ==
    /\ (view'.page = "app" /\ view'.stopped) => session_state' = session_state
    /\ Fetched(session_state') # Fetched(session_state) =>
          /\ view'.page = "app" /\ view'.fetched
          /\ FetchKeys \subseteq DOMAIN session_state'
          /\ session_state'.last_refresh_ts = now'
          /\ now' = now + 1

\* C26: after any sequence of runs of app.py and of the pages, the keys
\* prices_wide_full, prices_wide, data_health and last_refresh_ts are all
\* present or all absent and were stored by one run from one fetch; a run
\* whose fetch raises leaves the session state as it was; a page computes
\* only with prices_wide and settings present.
C26_SessionData == []SessionDataWhole /\ [][SessionDataStep]_vars

\* C26 witness: a refresh failed after an earlier run had stored a fetch
\* whose first bar the display window drops
C26_Witness ==
    /\ view.page = "app" /\ view.stopped
    /\ has(session_state, "prices_wide_full")
    /\ session_state.last_refresh_ts < now
    /\ Len(session_state.prices_wide.index) < Len(session_state.prices_wide_full.index)

\* C27: whenever the session state holds selected_basket and selected_pair,
\* both tickers of the pair are valid tickers of the basket.
C27_SelectedPairInBasket ==
    (has(session_state, "selected_basket") /\ has(session_state, "selected_pair")) =>
        \A i \in 1..2 :
            \E k \in 1..Len(page_valid_tickers(session_state.prices_wide, baskets,
                                               session_state.selected_basket)) :
                page_valid_tickers(session_state.prices_wide, baskets,
                                   session_state.selected_basket)[k]
                    = session_state.selected_pair[i]

-----------------------------------------------------------------------------
(* Specification SpecFrame: analytics calls in a row on the same price     *)
(* table, basket mapping and parameter set.  Python hands the arguments    *)
(* over by reference: a call is modelled by what it returns together with  *)
(* its arguments as it leaves them.                                        *)

AnalyticsCalls ==
    {"log_returns", "basket_return", "spread_series", "zscore", "bollinger_bands",
     "spread_vol", "scan_baskets", "scan_pairs_in_basket", "get_data_health"}

\* what the call returns: the series calls on the spread of A and B, the
\* basket calls on the basket "cab"
analytics_result(name, table, universe, st) ==
    CASE name = "log_returns" -> log_returns(table)
      [] name = "basket_return" ->
            basket_return(log_returns(table), page_valid_tickers(table, universe, "cab"))
      [] name = "spread_series" -> spread_series(table, ColA, ColB)
      [] name = "zscore" -> zscore(spread_series(table, ColA, ColB), st.z_window)
      [] name = "bollinger_bands" ->
            bollinger_bands(spread_series(table, ColA, ColB), st.z_window, st.boll_k)
      [] name = "spread_vol" ->
            spread_vol(spread_series(table, ColA, ColB), st.analytics_window)
      [] name = "scan_baskets" -> scan_baskets(table, universe, st, 2, {})
      [] name = "scan_pairs_in_basket" ->
            scan_pairs_in_basket(table, normalize_symbols(universe[2].tickers), st, {})
      [] name = "get_data_health" -> get_data_health(table)

\* a faulty variant: scan_baskets writes the normalised tickers back into
\* the basket mapping
analytics_call_normalizing_in_place(name, table, universe, st) ==
    [by |-> name, out |-> analytics_result(name, table, universe, st),
     prices_wide |-> table,
     baskets |-> IF name = "scan_baskets"
                 THEN [k \in 1..Len(universe) |->
                          [universe[k] EXCEPT !.tickers = normalize_symbols(@)]]
                 ELSE universe,
     settings |-> st]

\* the call: no function of analytics/ or get_data_health assigns into the
\* table, the mapping or the settings it is given
analytics_call(name, table, universe, st) ==
    [by |-> name, out |-> analytics_result(name, table, universe, st),
     prices_wide |-> table, baskets |-> universe, settings |-> st]

\* price tables of 3 bars with every column of the baskets "ba" and "cab"
FrameTables ==
    {[index |-> HourlyIndex(3), columns |-> <<ColA, ColB, ColC>>,
      data |-> (ColA :> ca) @@ (ColB :> <<Some(0), Some(1), Some(1)>>)
                   @@ (ColC :> FlatColumn(3))] :
        ca \in {<<NaN, Some(0), Some(1)>>, <<Some(0), Some(0), Some(1)>>,
                <<Some(0), Some(1), Some(0)>>}}

\* args keeps the inputs as they were handed to the first call
InitFrame ==
    /\ prices_wide \in FrameTables
    /\ baskets = Universe
    /\ settings \in {[z_window |-> 2, analytics_window |-> 2, boll_k |-> 0, z_entry |-> 0],
                     [z_window |-> 3, analytics_window |-> 2, boll_k |-> 1, z_entry |-> 1]}
    /\ failing = {}
    /\ args = [prices_wide |-> prices_wide, baskets |-> baskets, settings |-> settings]
    /\ view = Unused /\ ret = <<>>
    /\ session_state = Unused /\ now = 0

\* the state a call leaves
Called(call) ==
    /\ prices_wide' = call.prices_wide
    /\ baskets' = call.baskets
    /\ settings' = call.settings
    /\ ret' = Append(ret, [by |-> call.by, out |-> call.out])

Call(name) ==
    /\ Len(ret) < MaxCalls
    /\ Called(analytics_call(name, prices_wide, baskets, settings))
    /\ UNCHANGED <<failing, view, args, session>>

CallLogReturns == Call("log_returns")
CallBasketReturnOnBasket == Call("basket_return")
CallSpreadSeries == Call("spread_series")
CallZscoreOnSpread == Call("zscore")
CallBollingerBandsOnSpread == Call("bollinger_bands")
CallSpreadVolOnSpread == Call("spread_vol")
CallScanBaskets == Call("scan_baskets")
CallScanPairsInBasket == Call("scan_pairs_in_basket")
CallGetDataHealth == Call("get_data_health")

NextFrame ==
    \/ CallLogReturns
    \/ CallBasketReturnOnBasket
    \/ CallSpreadSeries
    \/ CallZscoreOnSpread
    \/ CallBollingerBandsOnSpread
    \/ CallSpreadVolOnSpread
    \/ CallScanBaskets
    \/ CallScanPairsInBasket
    \/ CallGetDataHealth

SpecFrame == InitFrame /\ [][NextFrame]_vars

====
